---- MODULE Spec2Model ----
(***************************************************************************)
(* Cognitive orchestration layer of openApex: the StateManager guard, the  *)
(* Agent cycle and the Brain.solve plan/act/observe loop.                   *)
(*                                                                         *)
(* Four specifications share the variables:                                *)
(*   SpecSM     the StateManager driven through its public operations      *)
(*              (set_state with any name, increment_iteration, append)     *)
(*   Spec       Brain.solve called repeatedly by a single caller, the      *)
(*              provider answering each Agent cycle with any response      *)
(*   SpecGW     an LLMRouter built from any environment and asked for one  *)
(*              response, the endpoints answering in any way               *)
(*   SpecAgent  one Agent's run_cycle and its textual interpreter          *)
(***************************************************************************)
EXTENDS Integers, Sequences, FiniteSets, TLC

\* ------------------------------------------------------------------ bounds
\* number of solve invocations explored on one Brain
MaxSolves == 2
\* SpecSM: increment_iteration is explored up to this counter value
MaxCount == 13
\* SpecSM: length of the task queue explored
MaxQueue == 2
\* loop passes (per Brain) in which the model's tool request is drawn from
\* all of ToolCallLists instead of the plain single web_search call
MaxVaried == 1
\* the provider requests tools or answers only while the ledger is shorter
\* than this; at this length it fails or returns an empty message
MaxLedger == 6
\* SpecAgent: run_cycle is explored while the ledger is shorter than this
MaxAgentLedger == 3
\* SpecLedger: add_message is called at most this many times
MaxAdds == 2
\* SpecContext: the window's add_message is called at most this many times
MaxContextAdds == 4
\* SpecMemory: self_reflect is dispatched at most this many times
MaxReflections == 2
\* SpecIds: run_cycle is explored while the ledger is shorter than this
MaxIdLedger == 4
\* SpecThreads: the cycles explored with an answer that grows the ledger,
\* over all threads
MaxThreadPasses == 2
\* SpecAutonomy: threads made by start, the cap of cycle_count, and the
\* cycles of the agent explored over all loops
MaxStarts == 2
MaxCycles == 2
MaxLoopPasses == 2

\* ------------------------------------------------------- program constants
max_iterations_per_task == 10

STATE_IDLE == "IDLE"
STATE_PLANNING == "PLANNING"
STATE_EXECUTING == "EXECUTING"
STATE_VERIFYING == "VERIFYING"
STATE_ERROR == "ERROR"

ValidStates ==
    {STATE_IDLE, STATE_PLANNING, STATE_EXECUTING, STATE_VERIFYING, STATE_ERROR}

\* names that are not states, as inputs of set_state
InvalidNames == {"DONE", "idle", ""}

\* Python's None, and a key that is missing from a dict
None == "<None>"
Absent == "<absent>"
NoException == "no exception"

Tasks == 1..MaxSolves

VARIABLES
    current_state,          \* StateManager.current_state
    current_iteration,      \* StateManager.current_iteration
    task_queue,             \* StateManager.task_queue (a stack, top = last)
    conversation_history,   \* main_agent.conversation_history (the ledger)
    pc,                     \* position of the caller in solve: idle/loop/exit
    solveNo,                \* number of solve invocations so far = task id
    user_input_to_agent,    \* solve's local: the objective, or None
    passes,                 \* loop passes of the current solve
    incs,                   \* increment_iteration calls of the current solve
    cycles,                 \* run_cycle calls of the current solve
    episodes,               \* VectorStore.store_episode invocations, in order
    reflections,            \* SelfLearnerTool.reflect_on_task invocations
    completions,            \* Consciousness.on_task_complete invocations
    errorTasks,             \* tasks during whose solve the state became ERROR
    varied,                 \* passes that used a varied tool request
    max_chars,              \* ContextWindow.max_chars
    context_history,        \* ContextWindow.history
    context_log,            \* every message given to ContextWindow.add_message
    active_agents,          \* SwarmManager.active_agents (the identifiers)
    kb_enabled,             \* VectorStore.kb_enabled
    collection,             \* the documents of VectorStore.collection
    next_uuid,              \* str(uuid.uuid4())[:8] of the next call of uuid4
    threads,                \* the threads inside Brain.solve: position and locals
    autonomy,               \* AutonomyEngine: _running, cycle_count, its loops
    last                    \* the last operation with its pre-state and result

smvars == <<current_state, current_iteration, task_queue>>
solvevars == <<pc, solveNo, user_input_to_agent, passes, incs, cycles>>
memvars == <<episodes, reflections, completions, errorTasks>>
contextvars == <<max_chars, context_history, context_log>>
storevars == <<kb_enabled, collection>>
concvars == <<threads, autonomy>>
collabvars == <<max_chars, context_history, context_log, active_agents,
                kb_enabled, collection, next_uuid, threads, autonomy>>
vars == <<current_state, current_iteration, task_queue, conversation_history,
          pc, solveNo, user_input_to_agent, passes, incs, cycles,
          episodes, reflections, completions, errorTasks, varied,
          max_chars, context_history, context_log, active_agents,
          kb_enabled, collection, next_uuid, threads, autonomy, last>>

\* ------------------------------------------------------------ StateManager
\* The StateManager as a record of the two fields set_state touches.
SM == [current_state |-> current_state, current_iteration |-> current_iteration]

\* set_state that resets the counter on every transition
SetState_AlwaysReset(sm, new_state) ==
    IF new_state \notin ValidStates
    THEN sm
    ELSE [current_state |-> new_state, current_iteration |-> 0]

\* set_state that resets the counter on PLANNING only
SetState_ResetOnPlanning(sm, new_state) ==
    IF new_state \notin ValidStates
    THEN sm
    ELSE [current_state |-> new_state,
          current_iteration |->
              IF new_state = STATE_PLANNING THEN 0 ELSE sm.current_iteration]

\* set_state without the validity check
SetState_Unchecked(sm, new_state) ==
    [current_state |-> new_state,
     current_iteration |->
         IF new_state \in {STATE_PLANNING, STATE_IDLE}
         THEN 0 ELSE sm.current_iteration]

\* StateManager.set_state
SetState(sm, new_state) ==
    IF new_state \notin ValidStates
    THEN sm
    ELSE [current_state |-> new_state,
          current_iteration |->
              IF new_state \in {STATE_PLANNING, STATE_IDLE}
              THEN 0 ELSE sm.current_iteration]

\* increment_iteration that trips one call early (>= instead of >)
IncrementIteration_OffByOne(sm) ==
    LET n == sm.current_iteration + 1
        sm1 == [sm EXCEPT !.current_iteration = n]
    IN IF n >= max_iterations_per_task
       THEN [sm |-> SetState(sm1, STATE_ERROR), ret |-> FALSE]
       ELSE [sm |-> sm1, ret |-> TRUE]

\* StateManager.increment_iteration: the manager afterwards and the result
IncrementIteration(sm) ==
    LET n == sm.current_iteration + 1
        sm1 == [sm EXCEPT !.current_iteration = n]
    IN IF n > max_iterations_per_task
       THEN [sm |-> SetState(sm1, STATE_ERROR), ret |-> FALSE]
       ELSE [sm |-> sm1, ret |-> TRUE]

\* ------------------------------------------------------------------- Agent
\* A ledger message; a field the code leaves out of the dict is Absent
\* (tool_calls: the empty sequence, the code never stores an empty list).
Message(role, content, tool_calls, tool_call_id, name) ==
    [role |-> role, content |-> content, tool_calls |-> tool_calls,
     tool_call_id |-> tool_call_id, name |-> name]

\* add_message that puts the new message in front
AddMessage_Prepend(history, role, content, tool_calls, tool_call_id, name) ==
    << Message(role, IF content = None THEN Absent ELSE content,
               tool_calls, tool_call_id, name) >> \o history

\* add_message that ignores its keyword arguments
AddMessage_NoKeywords(history, role, content, tool_calls, tool_call_id, name) ==
    Append(history,
           Message(role, IF content = None THEN Absent ELSE content,
                   <<>>, Absent, Absent))

\* add_message that leaves the content out whenever it is falsy
AddMessage_ContentIfTruthy(history, role, content, tool_calls, tool_call_id, name) ==
    Append(history,
           Message(role, IF content \in {None, ""} THEN Absent ELSE content,
                   tool_calls, tool_call_id, name))

\* AgentBase.add_message: content is left out when it is None, the keyword
\* arguments are copied as given
AddMessage(history, role, content, tool_calls, tool_call_id, name) ==
    Append(history,
           Message(role, IF content = None THEN Absent ELSE content,
                   tool_calls, tool_call_id, name))

\* AgentBase.__init__ followed by Brain.__init__'s replacement of entry 0
InitialHistory ==
    << Message("system", "conscious prompt", <<>>, Absent, Absent) >>

\* ---- tool calls as the provider sends them
\* argument texts, by what json.loads makes of them; ArgsComplete stands
\* for an object holding every field the named tool reads, well typed
ArgsComplete == "{\"all\": \"fields\"}"
ArgsEmptyObject == "{}"
ArgsPidAbc == "{\"pid\": \"abc\"}"
ArgsNotObject == "[1]"
ArgsBadJson == "{not json"

ArgTexts ==
    {ArgsComplete, ArgsEmptyObject, ArgsPidAbc, ArgsNotObject, ArgsBadJson,
     None, Absent}

ToolNames ==
    {"web_search", "get_clipboard", "self_reflect", "recall_knowledge",
     "study_url", "no_such_tool"}

ToolCall(id, name, arguments) ==
    [id |-> id, name |-> name, arguments |-> arguments]

\* the plain request: one well-formed web_search call
PlainCalls == << ToolCall("c1", "web_search", ArgsComplete) >>

\* one well-formed self_reflect call
ReflectCalls == << ToolCall("c1", "self_reflect", ArgsComplete) >>

\* one well-formed study_url call
StudyCalls == << ToolCall("c1", "study_url", ArgsComplete) >>

\* the requests of one call, and the requests of two calls whose first call
\* has arguments that are not the text of a JSON object
ToolCallLists ==
    { << ToolCall("c1", n, a) >> : n \in ToolNames, a \in ArgTexts \ {ArgsPidAbc} }
    \cup
    { << ToolCall("c1", "delegate_task", a) >> : a \in {ArgsComplete, ArgsEmptyObject} }
    \cup
    { << ToolCall("c1", "kill_process", a) >> : a \in {ArgsComplete, ArgsPidAbc} }
    \cup
    { << ToolCall("c1", "web_search", a), ToolCall("c2", "get_clipboard", ArgsEmptyObject) >> :
          a \in {ArgsBadJson, ArgsNotObject, None, Absent} }

\* ---- texts a provider message or an error body can carry
\* A text is the concatenation of its tokens.  A token is one of the
\* delimiters below, a whitespace character, a word (characters of \w
\* only) or a piece of other text; a piece of other text holds none of
\* < > { }, does not begin with "=", and begins and ends with a character
\* that is neither whitespace nor of \w, so that no regular expression of
\* the code can match from or up to the middle of a token.
LTF == "<function"
LTSF == "</function"
EQ == "="
GT == ">"
LB == "{"
RB == "}"
SP == " "
NL == "\n"

Words == {"web_search", "run_python", "plain", "answer"}

RECURSIVE Join(_)
Join(tokens) ==
    IF tokens = <<>> THEN "" ELSE Head(tokens) \o Join(Tail(tokens))

\* JSON-like objects as argument texts: {"all": "fields"}, {"query":"x"},
\* {} and {"code": "d={}"}
ObjAll == <<LB, "\"all\": \"fields\"", RB>>
ObjQuery == <<LB, "\"query\":\"x\"", RB>>
ObjEmpty == <<LB, RB>>
ObjNested == <<LB, "\"code\": \"d=", LB, RB, "\"", RB>>
ArgObjects == {ObjAll, ObjQuery, ObjEmpty, ObjNested}

InvokedNames == {"web_search", "run_python"}

\* <function=NAME>{ARGS}</function>, optionally with whitespace around the
\* parts
Shape1(name, args, padded) ==
    <<LTF, EQ, name>> \o (IF padded THEN <<SP>> ELSE <<>>) \o <<GT>>
    \o (IF padded THEN <<NL>> ELSE <<>>) \o args
    \o (IF padded THEN <<SP>> ELSE <<>>) \o <<LTSF, GT>>

\* <function>NAME</function>{ARGS}
Shape2(name, args, padded) ==
    <<LTF, GT, name, LTSF, GT>> \o (IF padded THEN <<NL>> ELSE <<>>) \o args

\* <function=NAME {ARGS}>
Shape3(name, args, padded) ==
    <<LTF, EQ, name, SP>> \o (IF padded THEN <<NL>> ELSE <<>>) \o args
    \o (IF padded THEN <<SP>> ELSE <<>>) \o <<GT>>

Shape(k, name, args, padded) ==
    IF k = 1 THEN Shape1(name, args, padded)
    ELSE IF k = 2 THEN Shape2(name, args, padded)
    ELSE Shape3(name, args, padded)

\* an invocation alone, or inside a sentence
Wrap(tokens, wrapped) ==
    IF wrapped THEN <<"(ok)", SP>> \o tokens \o <<SP, "(ok)">> ELSE tokens

\* one invocation of one shape
Invocations ==
    [shape : 1..3, name : InvokedNames, args : ArgObjects,
     padded : BOOLEAN, wrapped : BOOLEAN]

InvocationText(v) == Wrap(Shape(v.shape, v.name, v.args, v.padded), v.wrapped)

\* two invocations of different shapes and names in one text
Pairs ==
    { <<j, k>> \in (1..3) \X (1..3) : j # k }

PairText(p, args) ==
    Shape(p[1], "run_python", args, FALSE) \o <<NL>>
    \o Shape(p[2], "web_search", args, FALSE)

\* texts that hold no invocation: an answer, a comparison with an angle
\* bracket, and broken invocations (no body, body never closed, no name,
\* name that is not a word, shape 3 without the blank)
PlainTexts ==
    { <<"plain", SP, "answer">>,
      <<"\"x\"", SP, GT, SP, "\"y\"">>,
      <<LTF, EQ, "web_search", GT>>,
      <<LTF, EQ, "web_search", GT, LB, "\"query\":\"x\"">>,
      <<LTF, GT, "web_search", LTSF, GT>>,
      <<LTF, EQ, GT>> \o ObjAll \o <<LTSF, GT>>,
      <<LTF, EQ, "(ok)", GT>> \o ObjAll \o <<LTSF, GT>>,
      <<LTF, EQ, "web_search">> \o ObjAll \o <<GT>>,
      <<LTF, GT, "(ok)", LTSF, GT>> \o ObjAll }

TextTokens ==
    { InvocationText(v) : v \in Invocations }
    \cup { PairText(p, a) : p \in Pairs, a \in {ObjAll, ObjNested} }
    \cup PlainTexts

Texts == { Join(t) : t \in TextTokens }

\* the tokens of a text
Lex == [ text \in Texts |-> CHOOSE t \in TextTokens : Join(t) = text ]

TextAnswer == Join(<<"plain", SP, "answer">>)
TaggedText == Join(Shape1("web_search", ObjAll, FALSE))

\* ---- the regular expressions of the code, on tokens
IsWs(tok) == tok \in {SP, NL}
At(t, i, tok) == i <= Len(t) /\ t[i] = tok
IsWordAt(t, i) == i <= Len(t) /\ t[i] \in Words

\* \s* from position i: the position of the first token that is not
\* whitespace (one past the end when there is none)
SkipWs(t, i) ==
    CHOOSE j \in i..(Len(t) + 1) :
        /\ \A k \in i..(j - 1) : IsWs(t[k])
        /\ j = Len(t) + 1 \/ ~IsWs(t[j])

Min(S) == CHOOSE x \in S : \A y \in S : x <= y

\* str.strip on tokens
RECURSIVE Strip(_)
Strip(tokens) ==
    IF tokens = <<>> THEN tokens
    ELSE IF IsWs(Head(tokens)) THEN Strip(Tail(tokens))
    ELSE IF IsWs(tokens[Len(tokens)]) THEN Strip(SubSeq(tokens, 1, Len(tokens) - 1))
    ELSE tokens

\* a match: the token ranges of group 1 and of group 2
Groups(nfrom, nto, from, to) ==
    [nfrom |-> nfrom, nto |-> nto, from |-> from, to |-> to]

\* pattern 1 at position i: <function=(\w+)\s*>\s*(\{.*?\})\s*</function>
Pattern1(t, i) ==
    IF ~(At(t, i, LTF) /\ At(t, i + 1, EQ) /\ IsWordAt(t, i + 2)) THEN {}
    ELSE LET g == SkipWs(t, i + 3) IN
         IF ~At(t, g, GT) THEN {}
         ELSE LET b == SkipWs(t, g + 1) IN
              IF ~At(t, b, LB) THEN {}
              ELSE { Groups(i + 2, i + 2, b, e) : e \in
                       { e \in (b + 1)..Len(t) :
                           /\ t[e] = RB
                           /\ At(t, SkipWs(t, e + 1), LTSF)
                           /\ At(t, SkipWs(t, e + 1) + 1, GT) } }

\* pattern 2 at position i: <function>(\w+)</function>\s*(\{.*?\})
Pattern2(t, i) ==
    IF ~(/\ At(t, i, LTF) /\ At(t, i + 1, GT) /\ IsWordAt(t, i + 2)
         /\ At(t, i + 3, LTSF) /\ At(t, i + 4, GT)) THEN {}
    ELSE LET b == SkipWs(t, i + 5) IN
         IF ~At(t, b, LB) THEN {}
         ELSE { Groups(i + 2, i + 2, b, e) : e \in
                  { e \in (b + 1)..Len(t) : t[e] = RB } }

\* pattern 3 at position i: <function=(\w+)\s+(\{.*?\})\s*>
Pattern3(t, i) ==
    IF ~(/\ At(t, i, LTF) /\ At(t, i + 1, EQ) /\ IsWordAt(t, i + 2)
         /\ i + 3 <= Len(t) /\ IsWs(t[i + 3])) THEN {}
    ELSE LET b == SkipWs(t, i + 3) IN
         IF ~At(t, b, LB) THEN {}
         ELSE { Groups(i + 2, i + 2, b, e) : e \in
                  { e \in (b + 1)..Len(t) :
                      t[e] = RB /\ At(t, SkipWs(t, e + 1), GT) } }

\* the pattern of the gateway at position i: <function=([^>]+)>(.*?)</function>
PatternFailedGeneration(t, i) ==
    IF ~(At(t, i, LTF) /\ At(t, i + 1, EQ)) THEN {}
    ELSE LET closes == { g \in (i + 2)..Len(t) : t[g] = GT } IN
         IF closes = {} \/ Min(closes) = i + 2 THEN {}
         ELSE { Groups(i + 2, Min(closes) - 1, Min(closes) + 1, m - 1) : m \in
                  { m \in (Min(closes) + 1)..Len(t) :
                      t[m] = LTSF /\ At(t, m + 1, GT) } }

\* re.search with a lazy group 2, on the matches of a pattern at every
\* position: the leftmost position with a match, and there the shortest
\* group 2; the empty sequence stands for no match
Search(matches) ==
    LET starts == { i \in DOMAIN matches : matches[i] # {} } IN
    IF starts = {} THEN <<>>
    ELSE LET ms == matches[Min(starts)]
         IN << CHOOSE c \in ms : \A d \in ms : c.to <= d.to >>

\* the tool call built from a match: both groups stripped, a fresh id
CallOfMatch(t, c) ==
    ToolCall("call_" \o next_uuid, Join(Strip(SubSeq(t, c.nfrom, c.nto))),
             Join(Strip(SubSeq(t, c.from, c.to))))

\* AgentBase._parse_xml_tool_call: the three patterns in order, one call
\* from the first that matches (the empty sequence stands for the None the
\* code returns)
ParseXmlToolCall(text) ==
    LET t == Lex[text]
        m1 == Search([i \in 1..Len(t) |-> Pattern1(t, i)])
        m2 == Search([i \in 1..Len(t) |-> Pattern2(t, i)])
        m3 == Search([i \in 1..Len(t) |-> Pattern3(t, i)])
    IN IF m1 # <<>> THEN << CallOfMatch(t, m1[1]) >>
       ELSE IF m2 # <<>> THEN << CallOfMatch(t, m2[1]) >>
       ELSE IF m3 # <<>> THEN << CallOfMatch(t, m3[1]) >>
       ELSE <<>>

\* provider responses as generate_response returns them
\* {"error": str(e)}
ErrorResponseOf(e) ==
    [kind |-> "error", tool_calls |-> <<>>, content |-> None, error |-> e]

ErrorResponse == ErrorResponseOf("500 Server Error")
EmptyChoices == [kind |-> "empty_choices", tool_calls |-> <<>>, content |-> None]
MessageResponse(tool_calls, content) ==
    [kind |-> "message", tool_calls |-> tool_calls, content |-> content]

\* run_cycle that records a failure of the gateway as an assistant message
RunCycle_RecordsFailure(history, user_input, response) ==
    LET h1 == IF user_input \notin {None, ""}
              THEN AddMessage(history, "user", user_input, <<>>, Absent, Absent)
              ELSE history
        xml == ParseXmlToolCall(response.content)
    IN IF response.kind = "error"
       THEN [status |-> "failed", tool_calls |-> <<>>, response |-> None,
             error |-> response.error,
             history |-> AddMessage(h1, "assistant", response.error,
                                    <<>>, Absent, Absent)]
       ELSE IF response.kind = "empty_choices"
       THEN [status |-> "failed", tool_calls |-> <<>>, response |-> None,
             error |-> "Empty response from LLM", history |-> h1]
       ELSE IF response.tool_calls # <<>>
       THEN [status |-> "tool_requested", tool_calls |-> response.tool_calls,
             response |-> None, error |-> None,
             history |-> AddMessage(h1, "assistant",
                                    IF response.content = None THEN "" ELSE response.content,
                                    response.tool_calls, Absent, Absent)]
       ELSE IF response.content \notin {None, ""}
       THEN IF xml # <<>>
            THEN [status |-> "tool_requested", tool_calls |-> xml, response |-> None,
                  error |-> None,
                  history |-> AddMessage(h1, "assistant", "", xml, Absent, Absent)]
            ELSE [status |-> "success", tool_calls |-> <<>>,
                  response |-> response.content, error |-> None,
                  history |-> AddMessage(h1, "assistant", response.content,
                                         <<>>, Absent, Absent)]
       ELSE [status |-> "unknown", tool_calls |-> <<>>, response |-> None,
             error |-> None, history |-> h1]

\* run_cycle that consults the textual patterns before the structured list
RunCycle_TextFirst(history, user_input, response) ==
    LET h1 == IF user_input \notin {None, ""}
              THEN AddMessage(history, "user", user_input, <<>>, Absent, Absent)
              ELSE history
        xml == ParseXmlToolCall(response.content)
    IN IF response.kind = "error"
       THEN [status |-> "failed", tool_calls |-> <<>>, response |-> None,
             error |-> response.error, history |-> h1]
       ELSE IF response.kind = "empty_choices"
       THEN [status |-> "failed", tool_calls |-> <<>>, response |-> None,
             error |-> "Empty response from LLM", history |-> h1]
       ELSE IF response.tool_calls # <<>>
               /\ (response.content \in {None, ""} \/ xml = <<>>)
       THEN [status |-> "tool_requested", tool_calls |-> response.tool_calls,
             response |-> None, error |-> None,
             history |-> AddMessage(h1, "assistant",
                                    IF response.content = None THEN "" ELSE response.content,
                                    response.tool_calls, Absent, Absent)]
       ELSE IF response.content \notin {None, ""}
       THEN IF xml # <<>>
            THEN [status |-> "tool_requested", tool_calls |-> xml, response |-> None,
                  error |-> None,
                  history |-> AddMessage(h1, "assistant", "", xml, Absent, Absent)]
            ELSE [status |-> "success", tool_calls |-> <<>>,
                  response |-> response.content, error |-> None,
                  history |-> AddMessage(h1, "assistant", response.content,
                                         <<>>, Absent, Absent)]
       ELSE [status |-> "unknown", tool_calls |-> <<>>, response |-> None,
             error |-> None, history |-> h1]

\* run_cycle without the branch for a plain answer
RunCycle_AnswerDropped(history, user_input, response) ==
    LET h1 == IF user_input \notin {None, ""}
              THEN AddMessage(history, "user", user_input, <<>>, Absent, Absent)
              ELSE history
        xml == ParseXmlToolCall(response.content)
    IN IF response.kind = "error"
       THEN [status |-> "failed", tool_calls |-> <<>>, response |-> None,
             error |-> response.error, history |-> h1]
       ELSE IF response.kind = "empty_choices"
       THEN [status |-> "failed", tool_calls |-> <<>>, response |-> None,
             error |-> "Empty response from LLM", history |-> h1]
       ELSE IF response.tool_calls # <<>>
       THEN [status |-> "tool_requested", tool_calls |-> response.tool_calls,
             response |-> None, error |-> None,
             history |-> AddMessage(h1, "assistant",
                                    IF response.content = None THEN "" ELSE response.content,
                                    response.tool_calls, Absent, Absent)]
       ELSE IF response.content \notin {None, ""}
       THEN IF xml # <<>>
            THEN [status |-> "tool_requested", tool_calls |-> xml, response |-> None,
                  error |-> None,
                  history |-> AddMessage(h1, "assistant", "", xml, Absent, Absent)]
            ELSE [status |-> "unknown", tool_calls |-> <<>>,
                  response |-> None, error |-> None, history |-> h1]
       ELSE [status |-> "unknown", tool_calls |-> <<>>, response |-> None,
             error |-> None, history |-> h1]

\* AgentBase.run_cycle: the status returned, the tool calls or the text,
\* and the ledger afterwards
RunCycle(history, user_input, response) ==
    LET h1 == IF user_input \notin {None, ""}
              THEN AddMessage(history, "user", user_input, <<>>, Absent, Absent)
              ELSE history
        xml == ParseXmlToolCall(response.content)
    IN IF response.kind = "error"
       THEN [status |-> "failed", tool_calls |-> <<>>, response |-> None,
             error |-> response.error, history |-> h1]
       ELSE IF response.kind = "empty_choices"
       THEN [status |-> "failed", tool_calls |-> <<>>, response |-> None,
             error |-> "Empty response from LLM", history |-> h1]
       ELSE IF response.tool_calls # <<>>
       THEN [status |-> "tool_requested", tool_calls |-> response.tool_calls,
             response |-> None, error |-> None,
             history |-> AddMessage(h1, "assistant",
                                    IF response.content = None THEN "" ELSE response.content,
                                    response.tool_calls, Absent, Absent)]
       ELSE IF response.content \notin {None, ""}
       THEN IF xml # <<>>
            THEN [status |-> "tool_requested", tool_calls |-> xml, response |-> None,
                  error |-> None,
                  history |-> AddMessage(h1, "assistant", "", xml, Absent, Absent)]
            ELSE [status |-> "success", tool_calls |-> <<>>,
                  response |-> response.content, error |-> None,
                  history |-> AddMessage(h1, "assistant", response.content,
                                         <<>>, Absent, Absent)]
       ELSE [status |-> "unknown", tool_calls |-> <<>>, response |-> None,
             error |-> None, history |-> h1]

\* ----------------------------------------------------------------- Gateway
GroqUrl == "https://api.groq.com/openai/v1/chat/completions"
OpenRouterUrl == "https://openrouter.ai/api/v1/chat/completions"

\* model names as the environment can configure them
GroqModels == {"groq/llama-3.1-8b-instant", "groq/qwen-qwq-32b"}
Models == GroqModels \cup {"anthropic/claude-3.5-sonnet"}

\* model.startswith("groq/")
IsGroq(model) == model \in GroqModels

\* model.replace("groq/", "") on a Groq model
ApiModel(model) ==
    IF model = "groq/llama-3.1-8b-instant" THEN "llama-3.1-8b-instant"
    ELSE IF model = "groq/qwen-qwq-32b" THEN "qwen-qwq-32b"
    ELSE model

\* groq_to_openrouter_map.get(api_model, "meta-llama/llama-3.3-70b-instruct")
OpenRouterModelFor(api_model) ==
    IF api_model = "llama-3.1-8b-instant"
    THEN "meta-llama/llama-3.1-8b-instruct"
    ELSE "meta-llama/llama-3.3-70b-instruct"

\* LLMRouter.__init__: the keys and models read from the environment; a
\* key that is not set is None
Routers ==
    [openrouter_api_key : {None, "sk-or-key"},
     groq_api_key : {None, "gsk-key"},
     default_reasoning_model : Models,
     default_tooling_model : Models]

\* f"Bearer {key}"
Bearer(key) == "Bearer " \o (IF key = None THEN "None" ELSE key)

\* one requests.post as the endpoint sees it
Request(url, authorization, model, tools) ==
    [url |-> url, authorization |-> authorization, model |-> model,
     tools |-> tools]

\* ---- what an endpoint does with a request
\* bodies of a 2xx answer
Bodies ==
    { MessageResponse(<<>>, TextAnswer),
      MessageResponse(PlainCalls, None),
      EmptyChoices }

Ok(body) ==
    [kind |-> "ok", body |-> body, status |-> 200, code |-> None,
     failed_generation |-> Absent, error |-> None]

\* a non-2xx answer; code is error.code of its JSON body (None when the
\* body is not a JSON object with an error object)
HttpError(status, code, failed_generation) ==
    [kind |-> "http_error", body |-> None, status |-> status, code |-> code,
     failed_generation |-> failed_generation,
     error |-> IF status = 400 THEN "400 Client Error"
               ELSE IF status = 401 THEN "401 Client Error"
               ELSE "500 Server Error"]

\* no answer at all: connection refused, timeout
NetworkFailure ==
    [kind |-> "network", body |-> None, status |-> 0, code |-> None,
     failed_generation |-> Absent, error |-> "Connection refused"]

\* a 2xx answer whose body is not JSON
MalformedBody ==
    [kind |-> "malformed", body |-> None, status |-> 200, code |-> None,
     failed_generation |-> Absent, error |-> "Expecting value"]

\* error.failed_generation of a tool_use_failed body: invocations of every
\* shape, texts without one, two invocations, and null
FailedGenerations ==
    { Join(InvocationText(v)) : v \in { w \in Invocations : w.args \in {ObjQuery, ObjNested} } }
    \cup { Join(t) : t \in PlainTexts }
    \cup { Join(PairText(<<3, 1>>, ObjAll)), None }

Outcomes ==
    { Ok(b) : b \in Bodies }
    \cup { HttpError(s, c, Absent) :
             s \in {400, 401, 500}, c \in {None, "rate_limit", "tool_use_failed"} }
    \cup { HttpError(400, "tool_use_failed", g) : g \in FailedGenerations }
    \cup { HttpError(500, "tool_use_failed", TaggedText) }
    \cup { NetworkFailure, MalformedBody }

\* outcomes of the fallback request, which is made once
FallbackOutcomes ==
    { Ok(b) : b \in Bodies }
    \cup { HttpError(500, None, Absent), NetworkFailure, MalformedBody }

\* lines 82-115: the envelope synthesized from a 400 tool_use_failed body
\* whose failed_generation matches, else the empty sequence
RescueToolUseFailed(outcome) ==
    IF /\ outcome.status = 400
       /\ outcome.code = "tool_use_failed"
       /\ outcome.failed_generation \notin {Absent, None}
    THEN LET t == Lex[outcome.failed_generation]
             m == Search([i \in 1..Len(t) |-> PatternFailedGeneration(t, i)])
         IN IF m # <<>>
            THEN << MessageResponse(<< CallOfMatch(t, m[1]) >>, None) >>
            ELSE <<>>
    ELSE <<>>

\* the request of lines 71-75
PrimaryRequest(router, model, tools) ==
    IF IsGroq(model)
    THEN Request(GroqUrl, Bearer(router.groq_api_key), ApiModel(model), tools)
    ELSE Request(OpenRouterUrl, Bearer(router.openrouter_api_key), ApiModel(model), tools)

\* the fallback request sent to the endpoint that has just failed
FallbackRequest_SameEndpoint(router, model, tools) ==
    Request(IF IsGroq(model) THEN GroqUrl ELSE OpenRouterUrl,
            Bearer(router.openrouter_api_key),
            OpenRouterModelFor(ApiModel(model)), tools)

\* the request of lines 127-131
FallbackRequest(router, model, tools) ==
    Request(OpenRouterUrl, Bearer(router.openrouter_api_key),
            OpenRouterModelFor(ApiModel(model)), tools)

Returned(requests, response) ==
    [requests |-> requests, exc |-> NoException, response |-> response]

\* generate_response that makes the fallback request whatever the first
\* answer was and returns the fallback's answer when it has one
GenerateResponse_AlwaysFallback(router, task_type, tools, primary, fallback, json_is_request_exception) ==
    LET model == IF task_type = "reasoning"
                 THEN router.default_reasoning_model
                 ELSE router.default_tooling_model
        req1 == PrimaryRequest(router, model, tools)
        req2 == FallbackRequest(router, model, tools)
    IN Returned(<<req1, req2>>,
                IF fallback.kind = "ok" THEN fallback.body
                ELSE IF primary.kind = "ok" THEN primary.body
                ELSE ErrorResponseOf(fallback.error))

\* generate_response without the translation of tool_use_failed bodies
GenerateResponse_NoRescue(router, task_type, tools, primary, fallback, json_is_request_exception) ==
    LET model == IF task_type = "reasoning"
                 THEN router.default_reasoning_model
                 ELSE router.default_tooling_model
        req1 == PrimaryRequest(router, model, tools)
        req2 == FallbackRequest(router, model, tools)
    IN IF primary.kind = "ok"
       THEN Returned(<<req1>>, primary.body)
       ELSE IF primary.kind = "http_error"
       THEN IF IsGroq(model)
            THEN Returned(<<req1, req2>>,
                          IF fallback.kind = "ok" THEN fallback.body
                          ELSE ErrorResponseOf(fallback.error))
            ELSE Returned(<<req1>>, ErrorResponseOf(primary.error))
       ELSE IF primary.kind = "network" \/ json_is_request_exception
       THEN Returned(<<req1>>, ErrorResponseOf(primary.error))
       ELSE [requests |-> <<req1>>, exc |-> "JSONDecodeError", response |-> None]

\* LLMRouter.generate_response: the requests made, in order, and the
\* response returned or the exception that leaves the call.  primary and
\* fallback are what the endpoints do with the first and the second
\* request; json_is_request_exception tells whether the installed requests
\* library raises its JSON error as a RequestException (2.27 and later) or
\* as a plain ValueError.
GenerateResponse(router, task_type, tools, primary, fallback, json_is_request_exception) ==
    LET model == IF task_type = "reasoning"
                 THEN router.default_reasoning_model
                 ELSE router.default_tooling_model
        req1 == PrimaryRequest(router, model, tools)
        req2 == FallbackRequest(router, model, tools)
        rescue == RescueToolUseFailed(primary)
    IN IF primary.kind = "ok"
       THEN Returned(<<req1>>, primary.body)
       ELSE IF primary.kind = "http_error"
       THEN IF rescue # <<>>
            THEN Returned(<<req1>>, rescue[1])
            ELSE IF IsGroq(model)
            THEN Returned(<<req1, req2>>,
                          IF fallback.kind = "ok" THEN fallback.body
                          ELSE ErrorResponseOf(fallback.error))
            ELSE Returned(<<req1>>, ErrorResponseOf(primary.error))
       ELSE IF primary.kind = "network" \/ json_is_request_exception
       THEN Returned(<<req1>>, ErrorResponseOf(primary.error))
       ELSE [requests |-> <<req1>>, exc |-> "JSONDecodeError", response |-> None]

\* ------------------------------------------------------- tool dispatching
\* func_details.get("arguments", "{}"): the default applies to a missing key
ArgumentsOf(call) ==
    IF call.arguments = Absent THEN ArgsEmptyObject ELSE call.arguments

\* json.loads: the exception raised, or the kind of value returned
JsonLoads(text) ==
    IF text = None THEN [exc |-> "TypeError", val |-> None]
    ELSE IF text = ArgsBadJson THEN [exc |-> "JSONDecodeError", val |-> None]
    ELSE IF text = ArgsNotObject THEN [exc |-> NoException, val |-> "list"]
    ELSE IF text = ArgsEmptyObject THEN [exc |-> NoException, val |-> "dict_empty"]
    ELSE IF text = ArgsPidAbc THEN [exc |-> NoException, val |-> "dict_pid_abc"]
    ELSE [exc |-> NoException, val |-> "dict_complete"]

Raised(e) == [exc |-> e, obs |-> None, ran |-> FALSE]
MissingArgument == [exc |-> NoException, obs |-> "error: missing argument", ran |-> FALSE]
ToolResult(name) == [exc |-> NoException, obs |-> "result", ran |-> TRUE]

\* ---- the swarm
\* Brain._register_default_tools: the schemas of the main agent, each named
\* by its function name, in registration order (all are in TOOL_CATALOG)
core_tools ==
    << "system_run_command", "system_read_file", "system_list_directory",
       "system_patch_file", "web_search", "self_reflect", "recall_knowledge",
       "delegate_task", "run_python" >>

\* Brain.TOOL_CATALOG: the names that have a schema
TOOL_CATALOG ==
    {"system_run_command", "system_read_file", "system_write_file",
      "system_list_directory", "system_patch_file", "browser_act",
      "web_search", "run_python", "self_reflect", "recall_knowledge",
      "study_url", "delegate_task", "take_screenshot", "get_clipboard",
      "set_clipboard", "list_processes", "kill_process", "get_disk_usage",
      "open_application", "get_system_stats", "text_to_speech",
      "speech_to_text", "list_tts_voices", "web_fetch", "analyze_image",
      "cron_add", "cron_list", "cron_remove", "send_message", "social_post",
      "social_read", "social_reply", "physical_move_mouse",
      "physical_click_mouse", "physical_type_keyboard",
      "physical_press_key", "physical_hotkey", "physical_open_chrome",
      "physical_whatsapp_call", "whatsapp_show_qr",
      "whatsapp_check_messages", "whatsapp_read_chat" }

\* the subset delegate_task uses when allowed_tools is None
DefaultAllowedTools ==
    << "web_search", "web_fetch", "run_python", "analyze_image",
       "system_read_file" >>

\* allowed_tools = None, as a list
NoAllowedTools == << None >>

Range(seq) == {seq[i] : i \in DOMAIN seq}

\* the parameters of AgentBase.__init__ besides self
AgentBaseParameters == {"name", "role_description", "router"}

\* the keywords delegate_task constructs its sub-agent with
SubAgentKeywords == {"name", "role_description", "router", "is_subagent"}

\* no agent
NoAgent == [created |-> FALSE, name |-> None, tools |-> <<>>, has_run |-> FALSE]

\* AgentBase(**keywords): an unexpected keyword is a TypeError; the new
\* agent has no tools, and the class has no method named run
NewAgentBase(name, keywords) ==
    IF keywords \subseteq AgentBaseParameters
    THEN [exc |-> NoException,
          agent |-> [created |-> TRUE, name |-> name, tools |-> <<>>,
                     has_run |-> FALSE]]
    ELSE [exc |-> "TypeError", agent |-> NoAgent]

\* f"SubAgent-{role_name}-{str(uuid.uuid4())[:6]}"
AgentId(role_name, uuid) == "SubAgent-" \o role_name \o "-" \o uuid

\* the message of the AttributeError for the missing method
NoRunMethod == "'AgentBase' object has no attribute 'run'"

\* delegate_task that enters the identifier in the registry before it
\* constructs the agent
DelegateTaskCall_RegistersFirst(registry, role_name, uuid, allowed_tools, parent_tools) ==
    [exc |-> "TypeError", result |-> None,
     active_agents |-> registry \cup {AgentId(role_name, uuid)},
     during |-> registry \cup {AgentId(role_name, uuid)},
     sub_agent |-> NoAgent]

\* SwarmManager.delegate_task: the exception that leaves it or the text it
\* returns, the registry afterwards, the registry at the call of
\* sub_agent.run (or where the call ended before), and the sub-agent
DelegateTaskCall(registry, role_name, uuid, allowed_tools, parent_tools) ==
    LET agent_id == AgentId(role_name, uuid)
        made == NewAgentBase(agent_id, SubAgentKeywords)
        registered == registry \cup {agent_id}
        allowed == IF allowed_tools = NoAllowedTools
                   THEN DefaultAllowedTools ELSE allowed_tools
        sub_agent == [made.agent EXCEPT
                         !.tools = SelectSeq(parent_tools,
                                       LAMBDA tool : tool \in Range(allowed))]
    IN IF made.exc # NoException
       THEN [exc |-> made.exc, result |-> None, active_agents |-> registry,
             during |-> registry, sub_agent |-> NoAgent]
       ELSE [exc |-> NoException,
             \* sub_agent.run raises AttributeError inside the try
             result |-> IF sub_agent.has_run THEN "result"
                        ELSE "Error evaluating sub-task: " \o NoRunMethod,
             active_agents |-> registered \ {agent_id},
             during |-> registered,
             sub_agent |-> sub_agent]

\* delegate_task as Brain._execute_tool calls it for a complete argument
\* object that names no allowed_tools; the outcome is the same for every
\* role name and identifier
DelegateTask ==
    LET r == DelegateTaskCall(active_agents, "Researcher", "a1b2c3",
                              NoAllowedTools, core_tools)
    IN IF r.exc # NoException THEN Raised(r.exc)
       ELSE [exc |-> NoException, obs |-> r.result, ran |-> TRUE]

\* ---- the long-term memory as the tools use it
\* VectorStore.store_episode: one more invocation, with its task_description
\* (a prefix and the task it names)
StoreEpisode(eps, prefix, task) ==
    Append(eps, [prefix |-> prefix, task |-> task])

\* SelfLearnerTool.reflect_on_task up to its store_episode call: the
\* reflection is made
ReflectOnTask_NoStore(mem, task) ==
    [episodes |-> mem.episodes, reflections |-> Append(mem.reflections, task)]

\* SelfLearnerTool.reflect_on_task: stores "[REFLECTION] <task>" in the same
\* VectorStore the Brain uses as long_term_memory
ReflectOnTask(mem, task) ==
    [episodes |-> StoreEpisode(mem.episodes, "[REFLECTION] ", task),
     reflections |-> Append(mem.reflections, task)]

\* f"[REFLECTION] {task}"
ReflectionOf(task) == "[REFLECTION] " \o task

\* f"[STUDY] Documentation from: {url}"
StudyPrefix == "[STUDY] Documentation from: "
StudyOf(url) == StudyPrefix \o url

\* SelfLearnerTool.study_documentation up to the store: what requests.get
\* and the extraction of the text give
StudyFetch(page) ==
    IF page = "request_error" THEN "error: failed to fetch"
    ELSE IF page = "blank" THEN "error: no text"
    ELSE "success"

\* the url of complete study_url arguments, and what requests.get may
\* answer for it: a page with text, a page without text, a failed request
StudyUrl == "http://docs.example/page"
StudyPages == {"text", "blank", "request_error"}

\* Brain._execute_tool on the tools the model explores: the exception that
\* leaves it or the observation it returns, and whether the tool itself ran
\* (no memory is touched before an exception or a missing argument); page
\* is what requests.get answers should the tool be study_url
ExecuteToolPlain(tool_name, arguments, page) ==
    IF tool_name \in {"web_search", "self_reflect", "recall_knowledge", "study_url"}
    THEN IF arguments = "list" THEN Raised("AttributeError")
         ELSE IF arguments \in {"dict_empty", "dict_pid_abc"} THEN MissingArgument
         ELSE IF tool_name = "study_url" /\ StudyFetch(page) # "success"
         THEN [exc |-> NoException, obs |-> StudyFetch(page), ran |-> TRUE]
         ELSE ToolResult(tool_name)
    ELSE IF tool_name = "delegate_task"
    THEN IF arguments = "list" THEN Raised("AttributeError")
         ELSE IF arguments \in {"dict_empty", "dict_pid_abc"} THEN MissingArgument
         ELSE DelegateTask
    ELSE IF tool_name = "get_clipboard"
    THEN ToolResult(tool_name)
    ELSE IF tool_name = "kill_process"
    THEN IF arguments = "list" THEN Raised("AttributeError")
         ELSE IF arguments = "dict_empty" THEN MissingArgument
         ELSE IF arguments = "dict_pid_abc" THEN Raised("ValueError")
         ELSE ToolResult(tool_name)
    ELSE [exc |-> NoException, obs |-> "error: unknown tool", ran |-> FALSE]

\* Brain._execute_tool with what the self-learning tools do to the memory
\* (store_episode and reflect_on_task invocations); task is the task that
\* complete self_reflect arguments name
ExecuteTool(tool_name, arguments, task, mem, page) ==
    LET out == ExecuteToolPlain(tool_name, arguments, page)
    IN [exc |-> out.exc, obs |-> out.obs, ran |-> out.ran,
        mem |-> IF ~out.ran \/ out.obs # "result" THEN mem
                ELSE IF tool_name = "self_reflect" THEN ReflectOnTask(mem, task)
                ELSE IF tool_name = "study_url"
                THEN [mem EXCEPT !.episodes = StoreEpisode(@, StudyPrefix, StudyUrl)]
                ELSE mem]

ParseErrorText == "Error: Failed to parse tool arguments as JSON."

\* one pass of the for loop of solve: json.loads, _execute_tool, and the
\* text of the tool message (only JSONDecodeError is caught)
ToolCallOutcome(call, task, mem, page) ==
    LET parsed == JsonLoads(ArgumentsOf(call))
        out == ExecuteTool(call.name, parsed.val, task, mem, page)
    IN IF parsed.exc = "JSONDecodeError"
       THEN [exc |-> NoException, obs |-> ParseErrorText, ran |-> FALSE, mem |-> mem]
       ELSE IF parsed.exc # NoException
       THEN [exc |-> parsed.exc, obs |-> None, ran |-> FALSE, mem |-> mem]
       ELSE out

\* the for loop of solve over response["tool_calls"], from call i on: the
\* ledger and the memory afterwards, the ids of the calls whose tool ran,
\* and the exception that ended the loop
RECURSIVE RunToolCalls(_, _, _, _, _, _, _)
RunToolCalls(calls, i, history, ran, task, mem, page) ==
    IF i > Len(calls)
    THEN [history |-> history, ran |-> ran, exc |-> NoException, mem |-> mem]
    ELSE LET call == calls[i]
             out == ToolCallOutcome(call, task, mem, page)
         IN IF out.exc # NoException
            THEN [history |-> history, ran |-> ran, exc |-> out.exc, mem |-> out.mem]
            ELSE RunToolCalls(calls, i + 1,
                     AddMessage(history, "tool", out.obs, <<>>, call.id, call.name),
                     IF out.ran THEN Append(ran, call.id) ELSE ran,
                     task, out.mem, page)

\* ---------------------------------------------------------- context window
\* ContextWindow.get_total_length: the sum of the content lengths, or the
\* TypeError of len(None)
RECURSIVE GetTotalLength(_)
GetTotalLength(history) ==
    IF history = <<>> THEN [exc |-> NoException, total |-> 0]
    ELSE LET rest == GetTotalLength(Tail(history))
         IN IF Head(history).content = None \/ rest.exc # NoException
            THEN [exc |-> "TypeError", total |-> 0]
            ELSE [exc |-> NoException,
                  total |-> Len(Head(history).content) + rest.total]

\* a pop that takes the entry at index 0
PopOldest_IndexZero(history) == Tail(history)

\* history.pop(1)
PopOldest(history) == << history[1] >> \o SubSeq(history, 3, Len(history))

\* _prune_history with an if in the place of the while
PruneHistory_Once(history, limit) ==
    IF history = <<>> THEN [exc |-> NoException, history |-> history]
    ELSE LET length == GetTotalLength(history)
         IN IF length.exc # NoException
            THEN [exc |-> length.exc, history |-> history]
            ELSE IF length.total > limit /\ Len(history) > 2
            THEN [exc |-> NoException, history |-> PopOldest(history)]
            ELSE [exc |-> NoException, history |-> history]

\* ContextWindow._prune_history: the history afterwards and the exception
\* that left it (the entries popped before it stay popped)
RECURSIVE PruneHistory(_, _)
PruneHistory(history, limit) ==
    IF history = <<>> THEN [exc |-> NoException, history |-> history]
    ELSE LET length == GetTotalLength(history)
         IN IF length.exc # NoException
            THEN [exc |-> length.exc, history |-> history]
            ELSE IF length.total > limit /\ Len(history) > 2
            THEN PruneHistory(PopOldest(history), limit)
            ELSE [exc |-> NoException, history |-> history]

\* ContextWindow.add_message: append, then prune
ContextAddMessage(history, limit, role, content) ==
    PruneHistory(Append(history, [role |-> role, content |-> content]), limit)

\* ------------------------------------------------------------------ memory
\* VectorStore.store_episode on the collection: skipped in mock mode, and
\* lost when collection.add raises (the exception is logged)
StoreInCollection(coll, enabled, task_description, add_raises) ==
    IF ~enabled \/ add_raises THEN coll
    ELSE Append(coll, [task |-> task_description])

\* collection.query: the n_results entries nearest to the query, those
\* stored for the query first
Nearest(coll, query, n_results) ==
    LET ordered ==
            SelectSeq(coll, LAMBDA d : d.task = ReflectionOf(query))
            \o SelectSeq(coll, LAMBDA d : d.task # ReflectionOf(query))
    IN SubSeq(ordered, 1, Min({n_results, Len(ordered)}))

\* VectorStore.search_similar_tasks: empty in mock mode and when the query
\* raises
SearchSimilarTasks(coll, enabled, query, top_k, query_raises) ==
    IF ~enabled \/ query_raises THEN <<>> ELSE Nearest(coll, query, top_k)

\* SelfLearnerTool.recall_similar
RecallSimilar(coll, enabled, query, n_results, query_raises) ==
    LET results == SearchSimilarTasks(coll, enabled, query, n_results, query_raises)
    IN IF results = <<>>
       THEN [status |-> "no_memories", relevant_memories |-> <<>>]
       ELSE [status |-> "success", relevant_memories |-> results]

\* --------------------------------------------------------------- operations
Top(q) == q[Len(q)]
Pop(q) == SubSeq(q, 1, Len(q) - 1)

LastOp(op, arg, ret, calls, exc, ran, task) ==
    [op |-> op, arg |-> arg, ret |-> ret,
     pre_state |-> current_state, pre_iter |-> current_iteration,
     pre_queue |-> task_queue, pre_len |-> Len(conversation_history),
     calls |-> calls, exc |-> exc, ran |-> ran, task |-> task]

\* the callers of solve: the autonomy daemon's thread and the terminal's
\* the thread of the i-th start of the AutonomyEngine
DaemonNames == <<"daemon", "daemon2", "daemon3">>
ThreadIds == {"terminal"} \cup {DaemonNames[i] : i \in 1..MaxStarts}

\* a thread that is not inside solve
Outside == [pc |-> "outside", request |-> None, user_input |-> None,
            current_task |-> None, status |-> None, tool_calls |-> <<>>,
            k |-> 1, observation |-> None, storing |-> <<>>, passes |-> 0]

NoThreads == [t \in ThreadIds |-> Outside]

\* AutonomyEngine.__init__: not running, no cycle counted, no thread made;
\* loops holds the position of every thread start has made
NewAutonomyEngine == [running |-> FALSE, cycle_count |-> 0, loops |-> <<>>]

\* Brain.__init__ with the ContextWindow built for max_tokens and with
\* chromadb importable or not
InitBrain(max_tokens, chroma_available) ==
    /\ current_state = STATE_IDLE
    /\ current_iteration = 0
    /\ task_queue = <<>>
    /\ conversation_history = InitialHistory
    /\ pc = "idle"
    /\ solveNo = 0
    /\ user_input_to_agent = None
    /\ passes = 0
    /\ incs = 0
    /\ cycles = 0
    /\ episodes = <<>>
    /\ reflections = <<>>
    /\ completions = <<>>
    /\ errorTasks = {}
    /\ varied = 0
    /\ max_chars = max_tokens * 4
    /\ context_history = <<>>
    /\ context_log = <<>>
    /\ active_agents = {}
    /\ kb_enabled = chroma_available
    /\ collection = <<>>
    /\ next_uuid = "a1b2c3d4"
    /\ threads = NoThreads
    /\ autonomy = NewAutonomyEngine
    /\ last = [op |-> "init", arg |-> None, ret |-> None,
               pre_state |-> STATE_IDLE, pre_iter |-> 0, pre_queue |-> <<>>,
               pre_len |-> 1, calls |-> <<>>, exc |-> NoException,
               ran |-> <<>>, task |-> 0]

\* Brain(): a window of 4000 tokens; chromadb is not installed
Init == InitBrain(4000, FALSE)

\* ---- the StateManager's operations called directly (SpecSM)
SM_SetState(new_state) ==
    /\ pc = "idle"
    /\ current_state' = SetState(SM, new_state).current_state
    /\ current_iteration' = SetState(SM, new_state).current_iteration
    /\ last' = LastOp("set_state", new_state, None, <<>>, NoException, <<>>, 0)
    /\ UNCHANGED <<collabvars, task_queue, conversation_history, solvevars, memvars, varied>>

SM_IncrementIteration ==
    /\ pc = "idle"
    /\ current_iteration < MaxCount
    /\ LET r == IncrementIteration(SM)
       IN /\ current_state' = r.sm.current_state
          /\ current_iteration' = r.sm.current_iteration
          /\ last' = LastOp("increment_iteration", None, r.ret, <<>>, NoException, <<>>, 0)
    /\ UNCHANGED <<collabvars, task_queue, conversation_history, solvevars, memvars, varied>>

\* task_queue.append, the only way the queue grows
SM_Append(task) ==
    /\ pc = "idle"
    /\ Len(task_queue) < MaxQueue
    /\ task_queue' = Append(task_queue, task)
    /\ last' = LastOp("append", task, None, <<>>, NoException, <<>>, task)
    /\ UNCHANGED <<collabvars, current_state, current_iteration, conversation_history,
                   solvevars, memvars, varied>>

NextSM ==
    \/ \E n \in ValidStates \cup InvalidNames : SM_SetState(n)
    \/ SM_IncrementIteration
    \/ \E t \in Tasks : SM_Append(t)

SpecSM == Init /\ [][NextSM]_vars

\* ---- Brain.solve, one caller at a time (Spec)
\* what the provider may answer in a loop pass: always an error, an empty
\* choices list, a plain answer, a message with neither content nor calls,
\* and the plain tool request; the other tool requests while the budget of
\* varied passes lasts
Responses ==
    {ErrorResponse, EmptyChoices, MessageResponse(<<>>, None), MessageResponse(<<>>, "")}
    \cup
    (IF Len(conversation_history) < MaxLedger
     THEN {MessageResponse(<<>>, TextAnswer), MessageResponse(PlainCalls, None)}
     ELSE {})
    \cup
    (IF Len(conversation_history) < MaxLedger /\ varied < MaxVaried
     THEN { MessageResponse(l, None) : l \in ToolCallLists }
          \cup {MessageResponse(PlainCalls, TaggedText),
                MessageResponse(<<>>, TaggedText)}
     ELSE {})

IsVaried(response) ==
    response.kind = "message" /\ response # MessageResponse(PlainCalls, None)
    /\ (response.tool_calls # <<>> \/ response.content = TaggedText)

\* solve up to the while loop: recall, set_state(PLANNING), push the task
SolveStart ==
    /\ pc = "idle"
    /\ solveNo < MaxSolves
    /\ LET task == solveNo + 1
           sm == SetState(SM, STATE_PLANNING)
       IN /\ current_state' = sm.current_state
          /\ current_iteration' = sm.current_iteration
          /\ task_queue' = Append(task_queue, task)
          /\ solveNo' = task
          /\ last' = LastOp("solve_start", task, None, <<>>, NoException, <<>>, task)
    /\ user_input_to_agent' = "Current objective"
    /\ pc' = "loop"
    /\ passes' = 0 /\ incs' = 0 /\ cycles' = 0
    /\ UNCHANGED <<collabvars, conversation_history, memvars, varied>>

\* a loop pass in which increment_iteration returns False: break
LoopCeiling ==
    /\ pc = "loop"
    /\ task_queue # <<>>
    /\ LET inc == IncrementIteration(SM)
       IN /\ ~inc.ret
          /\ current_state' = inc.sm.current_state
          /\ current_iteration' = inc.sm.current_iteration
          /\ last' = LastOp("ceiling", None, FALSE, <<>>, NoException, <<>>, Top(task_queue))
    /\ passes' = passes + 1 /\ incs' = incs + 1
    /\ errorTasks' = errorTasks \cup {solveNo}
    /\ pc' = "exit"
    /\ UNCHANGED <<collabvars, task_queue, conversation_history, solveNo, user_input_to_agent,
                   cycles, episodes, reflections, completions, varied>>

\* a loop pass whose cycle returns failed: set_state(ERROR), break
CycleFailed(response) ==
    /\ pc = "loop"
    /\ task_queue # <<>>
    /\ LET inc == IncrementIteration(SM)
           r == RunCycle(conversation_history, user_input_to_agent, response)
           sm == SetState(inc.sm, STATE_ERROR)
       IN /\ inc.ret
          /\ r.status = "failed"
          /\ current_state' = sm.current_state
          /\ current_iteration' = sm.current_iteration
          /\ conversation_history' = r.history
          /\ last' = LastOp("cycle_failed", response.kind, TRUE, <<>>, NoException, <<>>, Top(task_queue))
    /\ passes' = passes + 1 /\ incs' = incs + 1 /\ cycles' = cycles + 1
    /\ user_input_to_agent' = None
    /\ errorTasks' = errorTasks \cup {solveNo}
    /\ pc' = "exit"
    /\ UNCHANGED <<collabvars, task_queue, solveNo, episodes, reflections, completions, varied>>

\* a loop pass whose cycle returns tool_requested: set_state(EXECUTING), the
\* for loop over the calls, continue; an exception other than
\* JSONDecodeError leaves solve at once; page is what requests.get answers
\* to a study_url call of the pass
CycleToolRequested(response, page) ==
    /\ pc = "loop"
    /\ task_queue # <<>>
    /\ LET inc == IncrementIteration(SM)
           r == RunCycle(conversation_history, user_input_to_agent, response)
           sm == SetState(inc.sm, STATE_EXECUTING)
           loop == RunToolCalls(r.tool_calls, 1, r.history, <<>>, Top(task_queue),
                                [episodes |-> episodes, reflections |-> reflections],
                                page)
       IN /\ inc.ret
          /\ r.status = "tool_requested"
          /\ current_state' = sm.current_state
          /\ current_iteration' = sm.current_iteration
          /\ conversation_history' = loop.history
          /\ episodes' = loop.mem.episodes
          /\ reflections' = loop.mem.reflections
          /\ pc' = IF loop.exc = NoException THEN "loop" ELSE "idle"
          /\ last' = LastOp("cycle_tool", response.kind, TRUE, r.tool_calls,
                            loop.exc, loop.ran, Top(task_queue))
    /\ passes' = passes + 1 /\ incs' = incs + 1 /\ cycles' = cycles + 1
    /\ user_input_to_agent' = None
    /\ varied' = IF IsVaried(response) THEN varied + 1 ELSE varied
    /\ UNCHANGED <<collabvars, task_queue, solveNo, completions, errorTasks>>

\* a loop pass whose cycle returns success: store_episode, reflect_on_task,
\* on_task_complete, pop, set_state(VERIFYING)
CycleSuccess(response) ==
    /\ pc = "loop"
    /\ task_queue # <<>>
    /\ LET inc == IncrementIteration(SM)
           r == RunCycle(conversation_history, user_input_to_agent, response)
           current_task == Top(task_queue)
           sm == SetState(inc.sm, STATE_VERIFYING)
           stored == StoreEpisode(episodes, "", current_task)
           mem == ReflectOnTask([episodes |-> stored, reflections |-> reflections],
                                current_task)
       IN /\ inc.ret
          /\ r.status = "success"
          /\ conversation_history' = r.history
          /\ episodes' = mem.episodes
          /\ reflections' = mem.reflections
          /\ completions' = Append(completions, current_task)
          /\ task_queue' = Pop(task_queue)
          /\ current_state' = sm.current_state
          /\ current_iteration' = sm.current_iteration
          /\ last' = LastOp("cycle_success", response.kind, TRUE, <<>>, NoException, <<>>, current_task)
    /\ passes' = passes + 1 /\ incs' = incs + 1 /\ cycles' = cycles + 1
    /\ user_input_to_agent' = None
    /\ pc' = "loop"
    /\ UNCHANGED <<collabvars, solveNo, errorTasks, varied>>

\* a pass that treats an unknown result as a failure of the cycle
CycleUnknown_SetsError(response) ==
    /\ pc = "loop"
    /\ task_queue # <<>>
    /\ LET inc == IncrementIteration(SM)
           r == RunCycle(conversation_history, user_input_to_agent, response)
       IN /\ inc.ret
          /\ r.status = "unknown"
          /\ current_state' = SetState(inc.sm, STATE_ERROR).current_state
          /\ current_iteration' = SetState(inc.sm, STATE_ERROR).current_iteration
          /\ conversation_history' = r.history
          /\ last' = LastOp("cycle_unknown", response.kind, TRUE, <<>>, NoException, <<>>, Top(task_queue))
    /\ passes' = passes + 1 /\ incs' = incs + 1 /\ cycles' = cycles + 1
    /\ user_input_to_agent' = None
    /\ pc' = "loop"
    /\ UNCHANGED <<collabvars, task_queue, solveNo, memvars, varied>>

\* a loop pass whose cycle returns unknown: no branch of solve applies
CycleUnknown(response) ==
    /\ pc = "loop"
    /\ task_queue # <<>>
    /\ LET inc == IncrementIteration(SM)
           r == RunCycle(conversation_history, user_input_to_agent, response)
       IN /\ inc.ret
          /\ r.status = "unknown"
          /\ current_state' = inc.sm.current_state
          /\ current_iteration' = inc.sm.current_iteration
          /\ conversation_history' = r.history
          /\ last' = LastOp("cycle_unknown", response.kind, TRUE, <<>>, NoException, <<>>, Top(task_queue))
    /\ passes' = passes + 1 /\ incs' = incs + 1 /\ cycles' = cycles + 1
    /\ user_input_to_agent' = None
    /\ pc' = "loop"
    /\ UNCHANGED <<collabvars, task_queue, solveNo, memvars, varied>>

\* after the loop (queue empty, or break): set_state(IDLE), return
SolveEnd ==
    /\ \/ pc = "exit"
       \/ pc = "loop" /\ task_queue = <<>>
    /\ LET sm == SetState(SM, STATE_IDLE)
       IN /\ current_state' = sm.current_state
          /\ current_iteration' = sm.current_iteration
    /\ last' = LastOp("solve_end", None, None, <<>>, NoException, <<>>, solveNo)
    /\ pc' = "idle"
    /\ UNCHANGED <<collabvars, task_queue, conversation_history, solveNo, user_input_to_agent,
                   passes, incs, cycles, memvars, varied>>

Next ==
    \/ SolveStart
    \/ LoopCeiling
    \/ \E response \in Responses : CycleFailed(response)
    \/ \E response \in Responses, page \in StudyPages :
           CycleToolRequested(response, page)
    \/ \E response \in Responses : CycleSuccess(response)
    \/ \E response \in Responses : CycleUnknown(response)
    \/ SolveEnd

Spec == Init /\ [][Next]_vars

\* ---- LLMRouter built from the environment and asked once (SpecGW)
TaskTypes == {"reasoning", "toolcalling"}

\* LLMRouter().generate_response(messages, task_type, tools) with what the
\* endpoints answer; the router keeps nothing from one call to the next,
\* so one call on a fresh router is explored
GW_GenerateResponse(router, task_type, tools, primary, fallback, json_is_request_exception) ==
    LET r == GenerateResponse(router, task_type, tools, primary, fallback,
                              json_is_request_exception)
    IN /\ last.op = "init"
       /\ last' = [op |-> "generate_response", router |-> router,
                   task_type |-> task_type, tools |-> tools,
                   primary |-> primary, fallback |-> fallback,
                   requests |-> r.requests, exc |-> r.exc,
                   response |-> r.response]
       /\ UNCHANGED <<collabvars, smvars, conversation_history, solvevars, memvars, varied>>

NextGW ==
    /\ last.op = "init"
    /\ \E router \in Routers, task_type \in TaskTypes, tools \in BOOLEAN,
          primary \in Outcomes, fallback \in FallbackOutcomes,
          json_is_request_exception \in BOOLEAN :
           GW_GenerateResponse(router, task_type, tools, primary, fallback,
                               json_is_request_exception)

SpecGW == Init /\ [][NextGW]_vars

\* ---- one Agent driven through run_cycle and its interpreter (SpecAgent)
\* contents of a provider message: None, the empty string, answers and
\* texts with invocations of each shape
AgentContents ==
    { None, "", TextAnswer, TaggedText,
      Join(<<"\"x\"", SP, GT, SP, "\"y\"">>),
      Join(<<LTF, EQ, "web_search", GT>>),
      Join(Wrap(Shape1("run_python", ObjNested, TRUE), TRUE)),
      Join(Shape2("web_search", ObjQuery, FALSE)),
      Join(Shape2("run_python", ObjNested, FALSE)),
      Join(Shape3("web_search", ObjQuery, FALSE)) }

TwoCalls ==
    << ToolCall("c1", "web_search", ArgsComplete),
       ToolCall("c2", "get_clipboard", ArgsEmptyObject) >>

AgentResponses ==
    { ErrorResponseOf(e) : e \in {"500 Server Error", "Connection refused"} }
    \cup { EmptyChoices }
    \cup { MessageResponse(calls, content) :
             calls \in {<<>>, PlainCalls, TwoCalls}, content \in AgentContents }

UserInputs == {None, "", "Current objective"}

Agent_RunCycle(user_input, response) ==
    /\ Len(conversation_history) < MaxAgentLedger
    /\ LET r == RunCycle(conversation_history, user_input, response)
       IN /\ conversation_history' = r.history
          /\ last' = [op |-> "run_cycle", user_input |-> user_input,
                      response |-> response,
                      pre_history |-> conversation_history,
                      status |-> r.status, tool_calls |-> r.tool_calls,
                      text |-> r.response, error |-> r.error]
    /\ UNCHANGED <<collabvars, smvars, solvevars, memvars, varied>>

\* the interpreter keeps nothing either: it is applied once to each text
Agent_ParseXmlToolCall(text) ==
    /\ last.op = "init"
    /\ last' = [op |-> "_parse_xml_tool_call", text |-> text,
                calls |-> ParseXmlToolCall(text)]
    /\ UNCHANGED <<collabvars, smvars, conversation_history, solvevars, memvars, varied>>

NextAgent ==
    \/ \E user_input \in UserInputs, response \in AgentResponses :
           Agent_RunCycle(user_input, response)
    \/ last.op = "init" /\ \E text \in Texts : Agent_ParseXmlToolCall(text)

SpecAgent == Init /\ [][NextAgent]_vars

\* ---- the ledger on its own: any caller of add_message
LedgerRoles == {"system", "user", "assistant", "tool"}
LedgerContents == {None, "", "Observation"}
\* the tool_call_id keyword: not passed, or an identifier
LedgerToolCallIds == {Absent, "call_1"}

\* the add_message calls made so far, in call order
AddCalls == IF last.op = "add_message" THEN last.calls ELSE <<>>

Ledger_AddMessage(role, content, tool_call_id) ==
    /\ Len(AddCalls) < MaxAdds
    /\ conversation_history' =
           AddMessage(conversation_history, role, content, <<>>,
                      tool_call_id, Absent)
    /\ last' = [op |-> "add_message",
                calls |-> Append(AddCalls,
                                 [role |-> role, content |-> content,
                                  tool_call_id |-> tool_call_id])]
    /\ UNCHANGED <<collabvars, smvars, solvevars, memvars, varied>>

NextLedger ==
    \E role \in LedgerRoles, content \in LedgerContents,
       tool_call_id \in LedgerToolCallIds :
        Ledger_AddMessage(role, content, tool_call_id)

SpecLedger == Init /\ [][NextLedger]_vars

\* ---- the swarm manager called directly, between steps of the state machine
RoleNames == {"Researcher", "Coder"}
\* str(uuid.uuid4())[:6]: any of the identifiers
Uuids == {"a1b2c3", "d4e5f6"}
AllowedToolsInputs ==
    { NoAllowedTools, <<>>, <<"web_search">>, <<"run_python", "web_search">>,
      <<"delegate_task", "get_clipboard">> }

\* delegate_task that counts the sub-agent's cycle on the parent's counter
Swarm_DelegateTask_CountsCycle(role_name, uuid, allowed_tools) ==
    LET r == DelegateTaskCall(active_agents, role_name, uuid, allowed_tools,
                              core_tools)
    IN /\ active_agents' = r.active_agents
       /\ current_iteration' = current_iteration + 1
       /\ last' = [op |-> "delegate_task", role_name |-> role_name,
                   agent_id |-> AgentId(role_name, uuid),
                   allowed_tools |-> allowed_tools,
                   pre_agents |-> active_agents, during |-> r.during,
                   exc |-> r.exc, result |-> r.result,
                   sub_agent |-> r.sub_agent]
       /\ UNCHANGED <<contextvars, storevars, next_uuid, concvars, current_state, task_queue,
                      conversation_history, solvevars, memvars, varied>>

Swarm_DelegateTask(role_name, uuid, allowed_tools) ==
    LET r == DelegateTaskCall(active_agents, role_name, uuid, allowed_tools,
                              core_tools)
    IN /\ active_agents' = r.active_agents
       /\ last' = [op |-> "delegate_task", role_name |-> role_name,
                   agent_id |-> AgentId(role_name, uuid),
                   allowed_tools |-> allowed_tools,
                   pre_agents |-> active_agents, during |-> r.during,
                   exc |-> r.exc, result |-> r.result,
                   sub_agent |-> r.sub_agent]
       /\ UNCHANGED <<contextvars, storevars, next_uuid, concvars, smvars, conversation_history,
                      solvevars, memvars, varied>>

NextSwarm ==
    \/ NextSM
    \/ \E role_name \in RoleNames, uuid \in Uuids,
          allowed_tools \in AllowedToolsInputs :
           Swarm_DelegateTask(role_name, uuid, allowed_tools)

SpecSwarm == Init /\ [][NextSwarm]_vars

\* ---- a ContextWindow on its own, built for a small budget (SpecContext)
\* max_tokens of the window: 4 and 8 characters
WindowTokens == {1, 2}
ContextRoles == {"system", "user"}
ContextContents == {None, "", "ab", "abcde"}

InitContext == \E max_tokens \in WindowTokens : InitBrain(max_tokens, FALSE)

Context_AddMessage(role, content) ==
    /\ Len(context_log) < MaxContextAdds
    /\ LET r == ContextAddMessage(context_history, max_chars, role, content)
       IN /\ context_history' = r.history
          /\ last' = [op |-> "context_add_message", role |-> role,
                      content |-> content, exc |-> r.exc,
                      pre_history |-> context_history]
    /\ context_log' = Append(context_log, [role |-> role, content |-> content])
    /\ UNCHANGED <<max_chars, active_agents, storevars, next_uuid, concvars, smvars,
                   conversation_history, solvevars, memvars, varied>>

NextContext ==
    \E role \in ContextRoles, content \in ContextContents :
        Context_AddMessage(role, content)

SpecContext == InitContext /\ [][NextContext]_vars

\* ---- the self-learning tools through _execute_tool, with the store enabled
\* or in mock mode (SpecMemory)
InitMemory == \E chroma_available \in BOOLEAN : InitBrain(4000, chroma_available)

ReflectTasks == {None, "Test Task", "Other Task"}
ReflectResults == {"", "Success"}
RecallQueries == {None, "Test Task", "Other Task"}
\* arguments.get("n_results", 3)
RecallCounts == {1, 3}

\* _execute_tool("self_reflect", {"task": task, "result": result})
Memory_SelfReflect(task, result, add_raises) ==
    /\ Len(episodes) < MaxReflections
    /\ IF task \in {None, ""} \/ result \in {None, ""}
       THEN /\ last' = [op |-> "self_reflect", task |-> task,
                        status |-> "error"]
            /\ UNCHANGED <<memvars, collection>>
       ELSE LET mem == ReflectOnTask([episodes |-> episodes,
                                     reflections |-> reflections], task)
            IN /\ episodes' = mem.episodes
               /\ reflections' = mem.reflections
               /\ collection' = StoreInCollection(collection, kb_enabled,
                                                  ReflectionOf(task), add_raises)
               /\ last' = [op |-> "self_reflect", task |-> task,
                           status |-> "success"]
               /\ UNCHANGED <<completions, errorTasks>>
    /\ UNCHANGED <<contextvars, active_agents, kb_enabled, next_uuid, concvars, smvars,
                   conversation_history, solvevars, varied>>

\* _execute_tool("recall_knowledge", {"query": query, "n_results": n_results})
Memory_RecallKnowledge(query, n_results, query_raises) ==
    /\ IF query \in {None, ""}
       THEN last' = [op |-> "recall_knowledge", query |-> query,
                     status |-> "error", relevant_memories |-> <<>>]
       ELSE LET r == RecallSimilar(collection, kb_enabled, query, n_results,
                                   query_raises)
            IN last' = [op |-> "recall_knowledge", query |-> query,
                        status |-> r.status,
                        relevant_memories |-> r.relevant_memories]
    /\ UNCHANGED <<collabvars, smvars, conversation_history, solvevars,
                   memvars, varied>>

\* what requests.get answers: a page with text, a page without, an error
StudyUrls == {None, "http://docs.example/page"}
\* _execute_tool("study_url", {"url": url})
Memory_StudyUrl(url, page, add_raises) ==
    /\ Len(episodes) < MaxReflections
    /\ IF url \in {None, ""}
       THEN /\ last' = [op |-> "study_url", url |-> url, status |-> "error"]
            /\ UNCHANGED <<memvars, collection>>
       ELSE IF StudyFetch(page) # "success"
       THEN /\ last' = [op |-> "study_url", url |-> url, status |-> StudyFetch(page)]
            /\ UNCHANGED <<memvars, collection>>
       ELSE /\ episodes' = StoreEpisode(episodes, StudyPrefix, url)
            /\ collection' = StoreInCollection(collection, kb_enabled,
                                               StudyOf(url), add_raises)
            /\ last' = [op |-> "study_url", url |-> url, status |-> "success"]
            /\ UNCHANGED <<reflections, completions, errorTasks>>
    /\ UNCHANGED <<contextvars, active_agents, kb_enabled, next_uuid, concvars, smvars,
                   conversation_history, solvevars, varied>>

NextMemory ==
    \/ \E task \in ReflectTasks, result \in ReflectResults,
          add_raises \in BOOLEAN :
           Memory_SelfReflect(task, result, add_raises)
    \/ \E url \in StudyUrls, page \in StudyPages, add_raises \in BOOLEAN :
           Memory_StudyUrl(url, page, add_raises)
    \/ \E query \in RecallQueries, n_results \in RecallCounts,
          query_raises \in BOOLEAN :
           Memory_RecallKnowledge(query, n_results, query_raises)

SpecMemory == InitMemory /\ [][NextMemory]_vars

\* ---- cycles of the main agent with the identifiers uuid4 hands out (SpecIds)
\* values of str(uuid.uuid4())[:8]
Uuid8s == {"a1b2c3d4", "0f9e8d7c"}
\* identifiers a provider gives its structured calls
ProviderIds == {"c1", "call_a1b2c3d4"}

\* what generate_response returns to the cycle: a text with an invocation
\* (for the interpreter), the envelope the gateway synthesizes from a
\* tool_use_failed body, a structured call of the provider, a plain answer
IdResponses ==
    [interpreter |-> {MessageResponse(<<>>, TaggedText)},
     gateway |-> {r[1] : r \in {RescueToolUseFailed(
                                   HttpError(400, "tool_use_failed", TaggedText))}},
     provider |-> {MessageResponse(<<ToolCall(id, "web_search", ArgsComplete)>>, None) :
                      id \in ProviderIds},
     answer |-> {MessageResponse(<<>>, TextAnswer)}]

Ids_RunCycle(origin, response, uuid) ==
    /\ Len(conversation_history) < MaxIdLedger
    /\ LET r == RunCycle(conversation_history, None, response)
       IN /\ conversation_history' = r.history
          /\ last' = [op |-> "ids_run_cycle", origin |-> origin,
                      pre_history |-> conversation_history,
                      status |-> r.status, tool_calls |-> r.tool_calls]
    /\ next_uuid' = uuid
    /\ UNCHANGED <<contextvars, active_agents, storevars, concvars, smvars,
                   solvevars, memvars, varied>>

NextIds ==
    \E origin \in DOMAIN IdResponses, uuid \in Uuid8s :
        \E response \in IdResponses[origin] :
            Ids_RunCycle(origin, response, uuid)

SpecIds == Init /\ [][NextIds]_vars

\* ---- Brain.solve entered from several threads (SpecThreads)
\* A step is one access of solve to what the threads share: the
\* StateManager, the stack, the ledger, the memory. run_cycle is two steps,
\* around the blocking call of the gateway; a tool call is one step, taken
\* when the tool returns. threads[t].passes counts the cycles of a thread
\* that were answered with anything but an empty message.
\* the request a thread passes to solve
TaskOf == [t \in ThreadIds |-> IF t = "terminal" THEN "ask" ELSE "learn"]

\* the two callers of main(): the autonomy daemon and the terminal loop
Callers == {"daemon", "terminal"}

RECURSIVE SumPasses(_)
SumPasses(ts) ==
    IF ts = {} THEN 0
    ELSE LET t == CHOOSE x \in ts : TRUE
         IN threads[t].passes + SumPasses(ts \ {t})

\* a message with neither content nor calls: the cycle returns unknown
EmptyMessage == MessageResponse(<<>>, None)

\* what the gateway answers thread t: an error, a plain answer, a
\* web_search, a self_reflect or a study_url request while the cycles
\* explored last;
\* from then on the terminal's calls get empty messages (its loop runs to
\* the ceiling)
ThreadResponses(t) ==
    IF SumPasses(ThreadIds) < MaxThreadPasses
    THEN {ErrorResponse, MessageResponse(<<>>, TextAnswer),
          MessageResponse(PlainCalls, None), MessageResponse(ReflectCalls, None),
          MessageResponse(StudyCalls, None)}
    ELSE IF t = "terminal" THEN {EmptyMessage}
    ELSE {}

At_(t, pc_) == threads[t].pc = pc_
Goto(t, pc_) == [threads EXCEPT ![t].pc = pc_]
\* what last keeps of a step: the store and the pop are kept in full
ThreadOp(op, t) ==
    IF op \in {"thread_store", "thread_pop"}
    THEN [op |-> op, thread |-> t, request |-> threads[t].request,
          task |-> threads[t].current_task, popped |-> None]
    ELSE [op |-> "thread_step", thread |-> None, request |-> None,
          task |-> None, popped |-> None]

\* solve(user_request): recall_similar, set_state(PLANNING)
Thread_Begin(t, user_request) ==
    /\ At_(t, "outside")
    /\ LET sm == SetState(SM, STATE_PLANNING)
       IN /\ current_state' = sm.current_state
          /\ current_iteration' = sm.current_iteration
    /\ threads' = [threads EXCEPT ![t].pc = "push", ![t].request = user_request]
    /\ last' = ThreadOp("thread_begin", t)
    /\ UNCHANGED <<contextvars, active_agents, storevars, next_uuid, autonomy,
                   task_queue, conversation_history, solvevars, memvars, varied>>

\* task_queue.append(user_request); user_input_to_agent = ...
Thread_Push(t) ==
    /\ At_(t, "push")
    /\ task_queue' = Append(task_queue, threads[t].request)
    /\ threads' = [threads EXCEPT ![t].pc = "while",
                                  ![t].user_input = "Current objective: " \o threads[t].request]
    /\ last' = ThreadOp("thread_push", t)
    /\ UNCHANGED <<contextvars, active_agents, storevars, next_uuid, autonomy,
                   current_state, current_iteration, conversation_history,
                   solvevars, memvars, varied>>

\* while self.state_manager.task_queue:
Thread_While(t) ==
    /\ At_(t, "while")
    /\ threads' = Goto(t, IF task_queue = <<>> THEN "end" ELSE "increment")
    /\ last' = ThreadOp("thread_while", t)
    /\ UNCHANGED <<contextvars, active_agents, storevars, next_uuid, autonomy,
                   smvars, conversation_history, solvevars, memvars, varied>>

\* increment_iteration: self.current_iteration += 1
Thread_Increment(t) ==
    /\ At_(t, "increment")
    /\ current_iteration' = current_iteration + 1
    /\ threads' = Goto(t, "compare")
    /\ last' = ThreadOp("thread_increment", t)
    /\ UNCHANGED <<contextvars, active_agents, storevars, next_uuid, autonomy,
                   current_state, task_queue, conversation_history, solvevars,
                   memvars, varied>>

\* increment_iteration: if self.current_iteration > self.max_iterations_per_task
Thread_Compare(t) ==
    /\ At_(t, "compare")
    /\ threads' = Goto(t, IF current_iteration > max_iterations_per_task
                          THEN "ceiling" ELSE "top")
    /\ last' = ThreadOp("thread_compare", t)
    /\ UNCHANGED <<contextvars, active_agents, storevars, next_uuid, autonomy,
                   smvars, conversation_history, solvevars, memvars, varied>>

\* increment_iteration: set_state(ERROR), return False; solve: break
Thread_Ceiling(t) ==
    /\ At_(t, "ceiling")
    /\ LET sm == SetState(SM, STATE_ERROR)
       IN /\ current_state' = sm.current_state
          /\ current_iteration' = sm.current_iteration
    /\ errorTasks' = errorTasks \cup {threads[t].request}
    /\ threads' = Goto(t, "end")
    /\ last' = ThreadOp("thread_ceiling", t)
    /\ UNCHANGED <<contextvars, active_agents, storevars, next_uuid, autonomy,
                   task_queue, conversation_history, solvevars, episodes,
                   reflections, completions, varied>>

\* current_task = task_queue[-1]: IndexError on an empty list
Thread_Top(t) ==
    /\ At_(t, "top")
    /\ threads' = IF task_queue = <<>> THEN Goto(t, "raised")
                  ELSE [threads EXCEPT ![t].pc = "send",
                                       ![t].current_task = Top(task_queue)]
    /\ last' = ThreadOp("thread_top", t)
    /\ UNCHANGED <<contextvars, active_agents, storevars, next_uuid, autonomy,
                   smvars, conversation_history, solvevars, memvars, varied>>

\* run_cycle up to the call of the gateway: the user message
Thread_Send(t) ==
    /\ At_(t, "send")
    /\ conversation_history' =
           IF threads[t].user_input \notin {None, ""}
           THEN AddMessage(conversation_history, "user", threads[t].user_input,
                           <<>>, Absent, Absent)
           ELSE conversation_history
    /\ threads' = Goto(t, "wait")
    /\ last' = ThreadOp("thread_send", t)
    /\ UNCHANGED <<contextvars, active_agents, storevars, next_uuid, autonomy,
                   smvars, solvevars, memvars, varied>>

\* run_cycle from the gateway's answer on; user_input_to_agent = None; the
\* branch of solve on the status (no shared access before its first call)
Thread_Receive(t, response) ==
    /\ At_(t, "wait")
    /\ LET r == RunCycle(conversation_history, None, response)
       IN /\ conversation_history' = r.history
          /\ threads' = [threads EXCEPT
                 ![t].pc = IF r.status = "failed" THEN "failed"
                           ELSE IF r.status = "tool_requested" THEN "executing"
                           ELSE IF r.status = "success" THEN "store"
                           ELSE "while",
                 ![t].user_input = None,
                 ![t].status = r.status,
                 ![t].tool_calls = r.tool_calls,
                 ![t].k = 1,
                 ![t].passes = IF response = EmptyMessage THEN @ ELSE @ + 1]
          /\ last' = ThreadOp("thread_receive", t)
    /\ UNCHANGED <<contextvars, active_agents, storevars, next_uuid, autonomy,
                   smvars, solvevars, memvars, varied>>

\* status failed: set_state(ERROR), break
Thread_Failed(t) ==
    /\ At_(t, "failed")
    /\ LET sm == SetState(SM, STATE_ERROR)
       IN /\ current_state' = sm.current_state
          /\ current_iteration' = sm.current_iteration
    /\ errorTasks' = errorTasks \cup {threads[t].request}
    /\ threads' = Goto(t, "end")
    /\ last' = ThreadOp("thread_failed", t)
    /\ UNCHANGED <<contextvars, active_agents, storevars, next_uuid, autonomy,
                   task_queue, conversation_history, solvevars, episodes,
                   reflections, completions, varied>>

\* status tool_requested: set_state(EXECUTING)
Thread_Executing(t) ==
    /\ At_(t, "executing")
    /\ LET sm == SetState(SM, STATE_EXECUTING)
       IN /\ current_state' = sm.current_state
          /\ current_iteration' = sm.current_iteration
    /\ threads' = Goto(t, "tool")
    /\ last' = ThreadOp("thread_executing", t)
    /\ UNCHANGED <<contextvars, active_agents, storevars, next_uuid, autonomy,
                   task_queue, conversation_history, solvevars, memvars, varied>>

\* one pass of the for loop over response["tool_calls"], up to the store
\* of the tool: json.loads and _execute_tool; a self_reflect call has
\* entered reflect_on_task. What the tool stores and returns is kept in
\* threads[t].storing and threads[t].observation
Thread_Tool(t, page) ==
    /\ At_(t, "tool")
    /\ LET k == threads[t].k
           calls == threads[t].tool_calls
           out == ToolCallOutcome(calls[k], threads[t].current_task,
                                  [episodes |-> <<>>, reflections |-> <<>>],
                                  page)
       IN /\ k <= Len(calls)
          /\ reflections' = reflections \o out.mem.reflections
          /\ threads' = [threads EXCEPT
                 ![t].pc = IF out.exc # NoException THEN "raised"
                           ELSE IF out.mem.episodes # <<>> THEN "tool_store"
                           ELSE "tool_message",
                 ![t].observation = out.obs,
                 ![t].storing = out.mem.episodes]
    /\ last' = ThreadOp("thread_tool", t)
    /\ UNCHANGED <<contextvars, active_agents, storevars, next_uuid, autonomy,
                   smvars, conversation_history, solvevars, episodes,
                   completions, errorTasks, varied>>

\* the store_episode of the tool (self_reflect, study_url)
Thread_ToolStore(t) ==
    /\ At_(t, "tool_store")
    /\ episodes' = episodes \o threads[t].storing
    /\ threads' = [threads EXCEPT ![t].pc = "tool_message", ![t].storing = <<>>]
    /\ last' = ThreadOp("thread_tool_store", t)
    /\ UNCHANGED <<contextvars, active_agents, storevars, next_uuid, autonomy,
                   smvars, conversation_history, solvevars, reflections,
                   completions, errorTasks, varied>>

\* main_agent.add_message("tool", ...) of the pass; after the last call,
\* continue
Thread_ToolMessage(t) ==
    /\ At_(t, "tool_message")
    /\ LET k == threads[t].k
           calls == threads[t].tool_calls
       IN /\ conversation_history' =
                 AddMessage(conversation_history, "tool", threads[t].observation,
                            <<>>, calls[k].id, calls[k].name)
          /\ threads' = [threads EXCEPT
                 ![t].pc = IF k = Len(calls) THEN "while" ELSE "tool",
                 ![t].k = k + 1,
                 ![t].observation = None]
    /\ last' = ThreadOp("thread_tool_message", t)
    /\ UNCHANGED <<contextvars, active_agents, storevars, next_uuid, autonomy,
                   smvars, solvevars, memvars, varied>>

\* status success: long_term_memory.store_episode(current_task, final_answer)
Thread_Store(t) ==
    /\ At_(t, "store")
    /\ episodes' = StoreEpisode(episodes, "", threads[t].current_task)
    /\ threads' = Goto(t, "reflect")
    /\ last' = ThreadOp("thread_store", t)
    /\ UNCHANGED <<contextvars, active_agents, storevars, next_uuid, autonomy,
                   smvars, conversation_history, solvevars, reflections,
                   completions, errorTasks, varied>>

\* self_learner.reflect_on_task(current_task, final_answer) is entered
Thread_Reflect(t) ==
    /\ At_(t, "reflect")
    /\ reflections' = ReflectOnTask_NoStore([episodes |-> episodes,
                                             reflections |-> reflections],
                                            threads[t].current_task).reflections
    /\ threads' = Goto(t, "reflect_store")
    /\ last' = ThreadOp("thread_reflect", t)
    /\ UNCHANGED <<contextvars, active_agents, storevars, next_uuid, autonomy,
                   smvars, conversation_history, solvevars, episodes,
                   completions, errorTasks, varied>>

\* the store_episode of reflect_on_task
Thread_ReflectStore(t) ==
    /\ At_(t, "reflect_store")
    /\ episodes' = StoreEpisode(episodes, "[REFLECTION] ", threads[t].current_task)
    /\ threads' = Goto(t, "complete")
    /\ last' = ThreadOp("thread_reflect_store", t)
    /\ UNCHANGED <<contextvars, active_agents, storevars, next_uuid, autonomy,
                   smvars, conversation_history, solvevars, reflections,
                   completions, errorTasks, varied>>

\* consciousness.on_task_complete(current_task)
Thread_Complete(t) ==
    /\ At_(t, "complete")
    /\ completions' = Append(completions, threads[t].current_task)
    /\ threads' = Goto(t, "pop")
    /\ last' = ThreadOp("thread_complete", t)
    /\ UNCHANGED <<contextvars, active_agents, storevars, next_uuid, autonomy,
                   smvars, conversation_history, solvevars, episodes,
                   reflections, errorTasks, varied>>

\* task_queue.pop(): IndexError on an empty list
Thread_Pop(t) ==
    /\ At_(t, "pop")
    /\ task_queue' = IF task_queue = <<>> THEN task_queue ELSE Pop(task_queue)
    /\ threads' = Goto(t, IF task_queue = <<>> THEN "raised" ELSE "verifying")
    /\ last' = [ThreadOp("thread_pop", t) EXCEPT
                   !.popped = IF task_queue = <<>> THEN "IndexError"
                              ELSE Top(task_queue)]
    /\ UNCHANGED <<contextvars, active_agents, storevars, next_uuid, autonomy,
                   current_state, current_iteration, conversation_history,
                   solvevars, memvars, varied>>

\* set_state(VERIFYING)
Thread_Verifying(t) ==
    /\ At_(t, "verifying")
    /\ LET sm == SetState(SM, STATE_VERIFYING)
       IN /\ current_state' = sm.current_state
          /\ current_iteration' = sm.current_iteration
    /\ threads' = Goto(t, "while")
    /\ last' = ThreadOp("thread_verifying", t)
    /\ UNCHANGED <<contextvars, active_agents, storevars, next_uuid, autonomy,
                   task_queue, conversation_history, solvevars, memvars, varied>>

\* set_state(IDLE), return
Thread_End(t) ==
    /\ At_(t, "end")
    /\ LET sm == SetState(SM, STATE_IDLE)
       IN /\ current_state' = sm.current_state
          /\ current_iteration' = sm.current_iteration
    /\ threads' = Goto(t, "returned")
    /\ last' = ThreadOp("thread_end", t)
    /\ UNCHANGED <<contextvars, active_agents, storevars, next_uuid, autonomy,
                   task_queue, conversation_history, solvevars, memvars, varied>>

\* the steps of solve after its first, for thread t
ThreadStep(t) ==
    \/ Thread_Push(t)
    \/ Thread_While(t)
    \/ Thread_Increment(t)
    \/ Thread_Compare(t)
    \/ Thread_Ceiling(t)
    \/ Thread_Top(t)
    \/ Thread_Send(t)
    \/ \E response \in ThreadResponses(t) : Thread_Receive(t, response)
    \/ Thread_Failed(t)
    \/ Thread_Executing(t)
    \/ \E page \in StudyPages : Thread_Tool(t, page)
    \/ Thread_ToolStore(t)
    \/ Thread_ToolMessage(t)
    \/ Thread_Store(t)
    \/ Thread_Reflect(t)
    \/ Thread_ReflectStore(t)
    \/ Thread_Complete(t)
    \/ Thread_Pop(t)
    \/ Thread_Verifying(t)
    \/ Thread_End(t)

NextThreads ==
    \E t \in Callers :
        \/ Thread_Begin(t, TaskOf[t])
        \/ ThreadStep(t)

SpecThreads == Init /\ [][NextThreads]_vars

\* ---- AutonomyEngine.start, stop and _daemon_loop (SpecAutonomy)
\* autonomy.loops holds one entry per thread made by start: the position of
\* its _daemon_loop, the value of cycle_count it has read and the action it
\* decided on. The solve call of a cycle runs as the thread LoopThread(i),
\* step by step as above.
NewLoop == [pc |-> "greet", seen |-> 0, mode |-> None]

LoopThread(i) == DaemonNames[i]

MODE_LEARNING == "learning"
MODE_SOCIALIZING == "socializing"
MODE_MONITORING == "monitoring"
MODE_CREATING == "creating"
MODE_IDLE == "idle"

\* _decide_action: learning for the first cycles, then a weighted draw
DecideAction(cycle) ==
    IF cycle <= 3 THEN {MODE_LEARNING}
    ELSE {MODE_LEARNING, MODE_SOCIALIZING, MODE_MONITORING, MODE_CREATING, MODE_IDLE}

\* the request a _do_ method passes to brain.solve
RequestOf(mode) ==
    IF mode = MODE_LEARNING THEN "learn"
    ELSE IF mode = MODE_SOCIALIZING THEN "post"
    ELSE IF mode = MODE_MONITORING THEN "monitor"
    ELSE "create"

BrainVars == <<contextvars, active_agents, storevars, next_uuid, smvars,
               conversation_history, solvevars, memvars, varied>>

\* start(): returns at once when _running is set, else sets it and makes a thread
Autonomy_Start ==
    /\ autonomy.running \/ Len(autonomy.loops) < MaxStarts
    /\ autonomy' = IF autonomy.running THEN autonomy
                   ELSE [autonomy EXCEPT !.running = TRUE,
                                         !.loops = Append(@, NewLoop)]
    /\ last' = [op |-> "autonomy_start", was_running |-> autonomy.running,
                pre_loops |-> Len(autonomy.loops)]
    /\ UNCHANGED <<BrainVars, threads>>

\* stop(): clears _running and returns; the thread is not joined
Autonomy_Stop ==
    /\ autonomy' = [autonomy EXCEPT !.running = FALSE]
    /\ last' = [op |-> "autonomy_stop", was_running |-> autonomy.running,
                pre_loops |-> Len(autonomy.loops)]
    /\ UNCHANGED <<BrainVars, threads>>

LoopAt(i, pc_) == i \in DOMAIN autonomy.loops /\ autonomy.loops[i].pc = pc_
LoopGoto(i, pc_) == [autonomy EXCEPT !.loops[i].pc = pc_]
LoopOp(op, i) == [op |-> "loop_step"]

\* self._autonomous_greet()
Loop_Greet(i) ==
    /\ LoopAt(i, "greet")
    /\ autonomy' = LoopGoto(i, "while")
    /\ last' = LoopOp("loop_greet", i)
    /\ UNCHANGED <<BrainVars, threads>>

\* while self._running:
Loop_While(i) ==
    /\ LoopAt(i, "while")
    /\ autonomy' = LoopGoto(i, IF autonomy.running THEN "cycle" ELSE "exited")
    /\ last' = LoopOp("loop_while", i)
    /\ UNCHANGED <<BrainVars, threads>>

\* self.cycle_count += 1, the read
Loop_Cycle(i) ==
    /\ LoopAt(i, "cycle")
    /\ autonomy.cycle_count < MaxCycles
    /\ autonomy' = [autonomy EXCEPT !.loops[i].pc = "write",
                                    !.loops[i].seen = autonomy.cycle_count]
    /\ last' = LoopOp("loop_cycle", i)
    /\ UNCHANGED <<BrainVars, threads>>

\* self.cycle_count += 1, the write
Loop_Write(i) ==
    /\ LoopAt(i, "write")
    /\ autonomy' = [autonomy EXCEPT !.loops[i].pc = "act",
                                    !.cycle_count = autonomy.loops[i].seen + 1]
    /\ last' = LoopOp("loop_write", i)
    /\ UNCHANGED <<BrainVars, threads>>

\* action = self._decide_action() and the _do_ method up to its solve call;
\* _do_idle, and _do_socializing without TELEGRAM_CHAT_ID, call nothing
Loop_Act(i, mode, chat_id) ==
    /\ LoopAt(i, "act")
    /\ mode \in DecideAction(autonomy.cycle_count)
    /\ autonomy' = [autonomy EXCEPT
           !.loops[i].mode = mode,
           !.loops[i].pc = IF mode = MODE_IDLE \/ (mode = MODE_SOCIALIZING /\ ~chat_id)
                           THEN "sleep" ELSE "solve"]
    /\ last' = LoopOp("loop_act", i)
    /\ UNCHANGED <<BrainVars, threads>>

\* self.brain.solve(...) of the cycle is entered
Loop_Solve(i) ==
    /\ LoopAt(i, "solve")
    /\ Thread_Begin(LoopThread(i), RequestOf(autonomy.loops[i].mode))

\* a step of the solve call of the cycle
Loop_SolveStep(i) ==
    /\ LoopAt(i, "solve")
    /\ At_(LoopThread(i), "while") /\ task_queue # <<>> =>
           SumPasses(ThreadIds) < Min({MaxLoopPasses, MaxThreadPasses})
    /\ ThreadStep(LoopThread(i))

\* solve has returned, or raised into the except of the _do_ method
Loop_Return(i) ==
    /\ LoopAt(i, "solve")
    /\ threads[LoopThread(i)].pc \in {"returned", "raised"}
    /\ autonomy' = LoopGoto(i, "sleep")
    /\ threads' = [threads EXCEPT ![LoopThread(i)] =
                      [Outside EXCEPT !.passes = threads[LoopThread(i)].passes]]
    /\ last' = LoopOp("loop_return", i)
    /\ UNCHANGED BrainVars

\* time.sleep(self.cycle_interval) returns
Loop_Sleep(i) ==
    /\ LoopAt(i, "sleep")
    /\ autonomy' = LoopGoto(i, "while")
    /\ last' = LoopOp("loop_sleep", i)
    /\ UNCHANGED <<BrainVars, threads>>

NextAutonomy ==
    \/ Autonomy_Start
    \/ Autonomy_Stop
    \/ \E i \in 1..MaxStarts :
           \/ Loop_Greet(i)
           \/ Loop_While(i)
           \/ Loop_Cycle(i)
           \/ Loop_Write(i)
           \/ \E mode \in DecideAction(MaxCycles + 1), chat_id \in BOOLEAN :
                  Loop_Act(i, mode, chat_id)
           \/ Loop_Solve(i)
           \/ Loop_SolveStep(i)
           \/ Loop_Return(i)
           \/ Loop_Sleep(i)

SpecAutonomy == Init /\ [][NextAutonomy]_vars

\* ================================================================== claims
Count(seq, t) == Cardinality({i \in DOMAIN seq : seq[i] = t})
StoresFor(t) ==
    Cardinality({i \in DOMAIN episodes :
                    episodes[i].prefix # StudyPrefix /\ episodes[i].task = t})
StoresWith(prefix, t) ==
    Cardinality({i \in DOMAIN episodes :
                    episodes[i].prefix = prefix /\ episodes[i].task = t})
\* the messages the last operation appended to the ledger
Appended ==
    SubSeq(conversation_history, last.pre_len + 1, Len(conversation_history))

\* C1: increment_iteration adds one to the counter; it returns true and
\* leaves current_state alone while the counter after the call is at most
\* the ceiling (10: the first ten calls from 0), and returns false and sets
\* current_state to ERROR exactly when the counter after the call is greater
\* (the 11th call).
C1_IncrementGuard ==
    last.op = "increment_iteration" =>
        /\ current_iteration = last.pre_iter + 1
        /\ last.ret = (current_iteration <= max_iterations_per_task)
        /\ (current_iteration \in 1..10 => last.ret = TRUE)
        /\ (current_iteration = 11 => last.ret = FALSE)
        /\ (last.ret = TRUE => current_state = last.pre_state)
        /\ (last.ret = FALSE => current_state = STATE_ERROR)

C1_Witness ==
    /\ last.op = "increment_iteration"
    /\ last.pre_iter = 10
    /\ last.pre_state = STATE_EXECUTING
    /\ last.ret = FALSE
    /\ current_state = STATE_ERROR

\* C2: set_state(PLANNING) and set_state(IDLE) set the counter to 0,
\* set_state(EXECUTING), set_state(VERIFYING) and set_state(ERROR) leave it
\* as it was, and no set_state call changes the task stack.
C2_ResetOnPlanningAndIdle ==
    last.op = "set_state" =>
        /\ (last.arg \in {STATE_PLANNING, STATE_IDLE} => current_iteration = 0)
        /\ (last.arg \in {STATE_EXECUTING, STATE_VERIFYING, STATE_ERROR}
                => current_iteration = last.pre_iter)
        /\ task_queue = last.pre_queue

C2_Witness ==
    /\ last.op = "set_state"
    /\ last.arg = STATE_VERIFYING
    /\ last.pre_iter = 3
    /\ current_iteration = 3
    /\ task_queue # <<>>

\* C3: set_state with a name that is not one of the five states changes
\* neither current_state nor the counter nor the task stack, and
\* current_state is always one of the five states.
C3_InvalidNameRejected ==
    /\ current_state \in ValidStates
    /\ (last.op = "set_state" /\ last.arg \notin ValidStates) =>
           /\ current_state = last.pre_state
           /\ current_iteration = last.pre_iter
           /\ task_queue = last.pre_queue

C3_Witness ==
    /\ last.op = "set_state"
    /\ last.arg \in InvalidNames
    /\ current_state = STATE_EXECUTING
    /\ current_iteration > 0

\* C4: a solve invocation increments the counter once per loop pass, makes
\* at most 10 Agent cycle calls and at most 11 loop passes (the 11th is the
\* one the circuit breaker ends), whatever the provider answers; while it
\* has not returned it can always take its next step.
C4_CircuitBreakerBoundsSolve ==
    /\ incs = passes
    /\ cycles <= max_iterations_per_task
    /\ passes <= max_iterations_per_task + 1
    /\ cycles <= passes
    /\ (pc # "idle" => ENABLED (LoopCeiling \/ SolveEnd
                                \/ CycleUnknown(MessageResponse(<<>>, None))))

C4_Witness ==
    /\ last.op = "ceiling"
    /\ cycles = 10
    /\ passes = 11
    /\ current_state = STATE_ERROR
    /\ \E i \in DOMAIN conversation_history :
           conversation_history[i].role = "tool"

\* C5 as stated: VERIFYING is entered only from EXECUTING, also when the
\* first cycle returns a plain-text answer.
C5_AsClaimed ==
    last.op = "cycle_success" => last.pre_state = STATE_EXECUTING

\* C6 as stated: store_episode is invoked exactly once and reflect_on_task
\* exactly once for every task answered in plain text.
C6_AsClaimed ==
    \A t \in Tasks :
        Count(completions, t) > 0 => StoresFor(t) = 1 /\ Count(reflections, t) = 1

\* C7 as stated: for a task whose solve ended in ERROR, store_episode,
\* reflect_on_task and on_task_complete are never invoked with that task,
\* in that solve or in a later one.
C7_AsClaimed ==
    \A t \in errorTasks :
        StoresFor(t) = 0 /\ Count(reflections, t) = 0 /\ Count(completions, t) = 0

\* C8 as stated: whenever solve returns, the task stack no longer holds the
\* task (the stack is empty between solve calls).
C8_AsClaimed ==
    last.op = "solve_end" => task_queue = <<>>

\* argument texts that do not deserialize into a structured object
NotAnObject(arguments) ==
    arguments \in {ArgsBadJson, ArgsNotObject, None, Absent}

\* C9 as stated, for tool calls whose arguments are the text of a JSON
\* object: a loop pass that executes such calls turns every failure (a tool
\* that raises in the dispatcher, an unknown tool, a sub-agent failure) into
\* a tool observation, one per call, the loop continues and no exception
\* leaves solve.
C9_AsClaimed ==
    (/\ last.op = "cycle_tool"
     /\ \A k \in DOMAIN last.calls : ~NotAnObject(last.calls[k].arguments)) =>
        /\ last.exc = NoException
        /\ pc = "loop"
        /\ Cardinality({i \in DOMAIN Appended : Appended[i].role = "tool"})
               = Len(last.calls)

\* C10 as stated: a call whose argument text does not deserialize into an
\* object is not executed, gets one tool message with its id and the
\* argument-parse error, and solve neither raises nor enters ERROR.
C10_AsClaimed ==
    last.op = "cycle_tool" =>
        \A k \in DOMAIN last.calls :
            NotAnObject(last.calls[k].arguments) =>
                /\ last.exc = NoException
                /\ current_state # STATE_ERROR
                /\ \A j \in DOMAIN last.ran : last.ran[j] # last.calls[k].id
                /\ Cardinality({i \in DOMAIN Appended :
                                   /\ Appended[i].role = "tool"
                                   /\ Appended[i].tool_call_id = last.calls[k].id
                                   /\ Appended[i].content = ParseErrorText}) = 1

\* ---- the Gateway (SpecGW)
\* the model the call routes to
ChosenModel ==
    IF last.task_type = "reasoning"
    THEN last.router.default_reasoning_model
    ELSE last.router.default_tooling_model

\* what the endpoint did with the i-th request of the call
AttemptOutcome(i) == IF i = 1 THEN last.primary ELSE last.fallback

\* the credential of the provider behind a URL
CredentialFor(url) ==
    IF url = GroqUrl THEN last.router.groq_api_key
    ELSE last.router.openrouter_api_key

\* C11 as stated: a provider whose credential is not configured is never
\* sent a request; it is skipped and the next provider is attempted, so
\* every request of a call goes to a provider whose key is set.
C11_AsClaimed ==
    last.op = "generate_response" =>
        \A i \in DOMAIN last.requests :
            CredentialFor(last.requests[i].url) # None

\* C12 as stated: whatever the primary model and whatever the kind of
\* failure of the primary attempt (network failure, non-2xx status,
\* malformed body; the translated tool_use_failed bodies set aside), the
\* next provider is attempted, a Failure is returned only after both
\* providers have been attempted and have failed, and a primary that fails
\* with HTTP 500 followed by a plain-text answer of the second provider
\* returns that answer.
C12_AsClaimed ==
    (/\ last.op = "generate_response"
     /\ last.primary.kind # "ok"
     /\ last.primary.code # "tool_use_failed") =>
        /\ last.exc = NoException
        /\ Len(last.requests) = 2
        /\ last.requests[2].url # last.requests[1].url
        /\ last.response.kind = "error" => last.fallback.kind # "ok"
        /\ (/\ last.primary.status = 500
            /\ last.fallback = Ok(MessageResponse(<<>>, TextAnswer))) =>
               last.response = MessageResponse(<<>>, TextAnswer)

\* C13: first success wins.  An attempt that yields a 2xx JSON body is the
\* last request of the call, and the call returns that body unchanged.
C13_FirstSuccessWins ==
    last.op = "generate_response" =>
        \A i \in DOMAIN last.requests :
            AttemptOutcome(i).kind = "ok" =>
                /\ i = Len(last.requests)
                /\ last.exc = NoException
                /\ last.response = AttemptOutcome(i).body

\* a Groq primary answers at once: OpenRouter, which a failure would have
\* brought in, is not contacted and the answer is returned
C13_Witness ==
    /\ last.op = "generate_response"
    /\ IsGroq(ChosenModel)
    /\ last.primary = Ok(MessageResponse(<<>>, TextAnswer))
    /\ Len(last.requests) = 1
    /\ last.response = MessageResponse(<<>>, TextAnswer)

\* C14: within one call no endpoint receives more than one request; after
\* a failure the only further request goes to a different endpoint.
C14_NoRetry ==
    last.op = "generate_response" =>
        /\ Len(last.requests) <= 2
        /\ \A i, j \in DOMAIN last.requests :
               i # j => last.requests[i].url # last.requests[j].url

\* Groq fails with HTTP 500, OpenRouter is asked next and fails too
C14_Witness ==
    /\ last.op = "generate_response"
    /\ last.primary.kind = "http_error"
    /\ last.primary.status = 500
    /\ last.fallback.kind # "ok"
    /\ Len(last.requests) = 2
    /\ last.requests[1].url = GroqUrl
    /\ last.requests[2].url = OpenRouterUrl
    /\ last.response.kind = "error"

\* texts of the form <function=NAME>ARGS</function> (alone or inside a
\* sentence, with or without blanks around NAME and ARGS), and texts that
\* hold nothing of that form
GatewayInvocations == { v \in Invocations : v.shape = 1 }
GatewayUnmatched ==
    { Join(InvocationText(v)) : v \in { w \in Invocations : w.shape # 1 } }
    \cup { Join(<<"plain", SP, "answer">>),
           Join(<<"\"x\"", SP, GT, SP, "\"y\"">>),
           Join(<<LTF, EQ, "web_search", GT>>),
           Join(<<LTF, EQ, "web_search", GT, LB, "\"query\":\"x\"">>),
           Join(<<LTF, GT, "web_search", LTSF, GT>>),
           Join(<<LTF, EQ, "web_search">> \o ObjAll \o <<GT>>) }

\* what an ordinary failure of the primary gives: the fallback's answer or
\* its Failure for a Groq primary, the Failure of the only attempt otherwise
OrdinaryFailure ==
    /\ last.exc = NoException
    /\ IF IsGroq(ChosenModel)
       THEN /\ Len(last.requests) = 2
            /\ last.response = IF last.fallback.kind = "ok"
                               THEN last.fallback.body
                               ELSE ErrorResponseOf(last.fallback.error)
       ELSE /\ Len(last.requests) = 1
            /\ last.response = ErrorResponseOf(last.primary.error)

\* C15: a 400 body with code tool_use_failed whose failed_generation is
\* <function=NAME>ARGS</function> gives a success envelope of one choice
\* with exactly one tool call, name NAME and arguments ARGS (blanks around
\* them dropped), and no fallback request; a body of that code whose text
\* has no such form is handled as an ordinary failure.
C15_ToolUseFailedTranslated ==
    (/\ last.op = "generate_response"
     /\ last.primary.kind = "http_error"
     /\ last.primary.status = 400
     /\ last.primary.code = "tool_use_failed") =>
        /\ \A v \in GatewayInvocations :
               last.primary.failed_generation = Join(InvocationText(v)) =>
                   /\ last.exc = NoException
                   /\ Len(last.requests) = 1
                   /\ last.response.kind = "message"
                   /\ last.response.content = None
                   /\ Len(last.response.tool_calls) = 1
                   /\ last.response.tool_calls[1].name = v.name
                   /\ last.response.tool_calls[1].arguments = Join(v.args)
        /\ last.primary.failed_generation \in GatewayUnmatched \cup {None, Absent} =>
               OrdinaryFailure

\* Groq rejects with the spec's example text and the call returns the
\* web_search request without asking OpenRouter
C15_Witness ==
    /\ last.op = "generate_response"
    /\ IsGroq(ChosenModel)
    /\ last.primary =
           HttpError(400, "tool_use_failed",
                     "<function=web_search>{\"query\":\"x\"}</function>")
    /\ Len(last.requests) = 1
    /\ last.response.kind = "message"
    /\ last.response.tool_calls[1].name = "web_search"
    /\ last.response.tool_calls[1].arguments = "{\"query\":\"x\"}"

\* ---- the Agent cycle and its interpreter (SpecAgent)
\* the messages the last run_cycle added to the ledger
CycleAppended ==
    SubSeq(conversation_history, Len(last.pre_history) + 1,
           Len(conversation_history))

\* the ledger before the call plus the user message for a supplied input
WithUserMessage ==
    IF last.user_input \in {None, ""}
    THEN last.pre_history
    ELSE Append(last.pre_history,
                [role |-> "user", content |-> last.user_input,
                 tool_calls |-> <<>>, tool_call_id |-> Absent, name |-> Absent])

\* C16: when the gateway returns a Failure, run_cycle returns failed with
\* the gateway's error, and the ledger afterwards is the ledger before
\* plus at most the one user message: no assistant or tool message is new.
C16_FailureLeavesLedger ==
    (last.op = "run_cycle" /\ last.response.kind = "error") =>
        /\ last.status = "failed"
        /\ last.error = last.response.error
        /\ conversation_history = WithUserMessage
        /\ \A i \in DOMAIN CycleAppended :
               CycleAppended[i].role \notin {"assistant", "tool"}

\* a cycle with an objective whose gateway call fails: one user message
C16_Witness ==
    /\ last.op = "run_cycle"
    /\ last.response = ErrorResponseOf("Connection refused")
    /\ last.user_input = "Current objective"
    /\ last.status = "failed"
    /\ last.error = "Connection refused"
    /\ Len(conversation_history) = Len(last.pre_history) + 1
    /\ conversation_history[Len(conversation_history)].role = "user"

\* C17: a non-empty structured tool-call list is returned as it is with
\* status tool_requested and stored as it is, whatever the content holds;
\* nothing is synthesized from the content.
C17_StructuredCallsPreferred ==
    (/\ last.op = "run_cycle"
     /\ last.response.kind = "message"
     /\ last.response.tool_calls # <<>>) =>
        /\ last.status = "tool_requested"
        /\ last.tool_calls = last.response.tool_calls
        /\ Len(CycleAppended) >= 1
        /\ CycleAppended[Len(CycleAppended)].role = "assistant"
        /\ CycleAppended[Len(CycleAppended)].tool_calls = last.response.tool_calls

\* two structured calls arrive with a content that is itself a complete
\* <function=web_search>...</function> invocation
C17_Witness ==
    /\ last.op = "run_cycle"
    /\ last.response = MessageResponse(TwoCalls, TaggedText)
    /\ last.status = "tool_requested"
    /\ last.tool_calls = TwoCalls

\* the text holds the opening of a function tag
HasTagSyntax(text) ==
    /\ text \in Texts
    /\ \E i \in DOMAIN Lex[text] : Lex[text][i] = LTF

\* C18 as stated: every assistant message run_cycle appends has a content
\* field; with tool_calls the content is "" when the provider gave none or
\* the calls were synthesized; and so no assistant message carrying
\* tool_calls holds the model's raw tag syntax.
C18_AsClaimed ==
    last.op = "run_cycle" =>
        \A i \in DOMAIN CycleAppended :
            CycleAppended[i].role = "assistant" =>
                /\ CycleAppended[i].content # Absent
                /\ (/\ CycleAppended[i].tool_calls # <<>>
                    /\ (last.response.content = None \/ last.response.tool_calls = <<>>)) =>
                       CycleAppended[i].content = ""
                /\ CycleAppended[i].tool_calls # <<>> =>
                       ~HasTagSyntax(CycleAppended[i].content)

\* C18, amended: every assistant message run_cycle appends has a content
\* field; with tool_calls the content is "" when the provider gave none or
\* the calls were synthesized from text, and it is the provider's content,
\* kept as given (tag syntax included), when structured calls came with one.
C18_ContentNeverOmitted ==
    last.op = "run_cycle" =>
        \A i \in DOMAIN CycleAppended :
            CycleAppended[i].role = "assistant" =>
                /\ CycleAppended[i].content # Absent
                /\ CycleAppended[i].tool_calls # <<>> =>
                       CycleAppended[i].content =
                           IF last.response.content = None \/ last.response.tool_calls = <<>>
                           THEN ""
                           ELSE last.response.content

\* structured calls arrive with a content that holds tag syntax: the
\* assistant message has the calls and that content, as given
C18_Witness ==
    /\ last.op = "run_cycle"
    /\ last.response = MessageResponse(PlainCalls, TaggedText)
    /\ last.status = "tool_requested"
    /\ Len(CycleAppended) >= 1
    /\ CycleAppended[Len(CycleAppended)].role = "assistant"
    /\ CycleAppended[Len(CycleAppended)].tool_calls = PlainCalls
    /\ CycleAppended[Len(CycleAppended)].content = TaggedText

\* the invocation of a text with two of them that the priority order picks
PreferredOfPair(p) ==
    IF p[1] < p[2] THEN "run_python" ELSE "web_search"

\* C19 as stated: for a text with an invocation of one of the three shapes
\* the interpreter returns exactly one call, with the NAME and the {ARGS}
\* of the invocation (of the first shape in the priority order when two
\* shapes are present); for a text with no invocation it returns none.
C19_AsClaimed ==
    last.op = "_parse_xml_tool_call" =>
        /\ \A v \in Invocations :
               last.text = Join(InvocationText(v)) =>
                   /\ Len(last.calls) = 1
                   /\ last.calls[1].name = v.name
                   /\ last.calls[1].arguments = Join(v.args)
        /\ \A p \in Pairs, a \in {ObjAll, ObjNested} :
               last.text = Join(PairText(p, a)) =>
                   /\ Len(last.calls) = 1
                   /\ last.calls[1].name = PreferredOfPair(p)
                   /\ last.calls[1].arguments = Join(a)
        /\ last.text \in { Join(t) : t \in PlainTexts } => last.calls = <<>>

\* contents that hold no invocation of any shape
AnswerTexts ==
    { "plain answer", "\"x\" > \"y\"", "<function=web_search>" }

\* C20: a message without structured calls whose content is present and
\* matches no pattern gives success with that text and exactly one new
\* assistant message with that text as content, without tool_calls; no
\* tool message is added.
C20_PlainAnswer ==
    (/\ last.op = "run_cycle"
     /\ last.response.kind = "message"
     /\ last.response.tool_calls = <<>>
     /\ last.response.content \in AnswerTexts) =>
        /\ last.status = "success"
        /\ last.text = last.response.content
        /\ conversation_history =
               Append(WithUserMessage,
                      [role |-> "assistant", content |-> last.response.content,
                       tool_calls |-> <<>>, tool_call_id |-> Absent,
                       name |-> Absent])

\* an opening tag without a body is an answer, stored as it came
C20_Witness ==
    /\ last.op = "run_cycle"
    /\ last.response = MessageResponse(<<>>, "<function=web_search>")
    /\ last.user_input = None
    /\ last.status = "success"
    /\ Len(conversation_history) = Len(last.pre_history) + 1
    /\ conversation_history[Len(conversation_history)].content = "<function=web_search>"

\* ---- the ledger
\* C21: in every state the main agent's ledger is non-empty and starts with
\* a system message, and every step of run_cycle, add_message and solve
\* (tool dispatching and delegation included) leaves the messages already
\* there where and as they are: the ledger only grows at its end.  No
\* sub-agent ledger ever exists, see C24.
C21_LedgerAppendOnly ==
    /\ [](Len(conversation_history) >= 1 /\ conversation_history[1].role = "system")
    /\ [][/\ Len(conversation_history') >= Len(conversation_history)
          /\ SubSeq(conversation_history', 1, Len(conversation_history))
                 = conversation_history]_vars

\* a ledger that has grown by a user message, a tool request and its
\* observation, behind the system message
C21_Witness ==
    /\ Len(conversation_history) >= 4
    /\ conversation_history[1].role = "system"
    /\ conversation_history[2].role = "user"
    /\ conversation_history[3].role = "assistant"
    /\ conversation_history[4].role = "tool"

\* dict.get on a message: a missing key reads as None
Get(message, key) == IF message[key] = Absent THEN None ELSE message[key]

\* C22: after any sequence of add_message calls the ledger is the initial
\* system message followed by one message per call, in call order, and
\* reading role, content and tool_call_id of each gives what the call
\* passed (None for a content of None and for a tool_call_id not passed).
C22_RoundTrip ==
    last.op = "add_message" =>
        /\ Len(conversation_history) = 1 + Len(last.calls)
        /\ conversation_history[1] = InitialHistory[1]
        /\ \A i \in DOMAIN last.calls :
               /\ Get(conversation_history[i + 1], "role") = last.calls[i].role
               /\ Get(conversation_history[i + 1], "content")
                      = last.calls[i].content
               /\ Get(conversation_history[i + 1], "tool_call_id")
                      = Get(last.calls[i], "tool_call_id")

\* two calls, the first with an empty content and no tool_call_id, the
\* second a tool observation with its tool_call_id
C22_Witness ==
    /\ last.op = "add_message"
    /\ Len(last.calls) = 2
    /\ last.calls[1].content = ""
    /\ last.calls[1].tool_call_id = Absent
    /\ last.calls[2].role = "tool"
    /\ last.calls[2].tool_call_id = "call_1"
    /\ Len(conversation_history) = 3

\* ---- the swarm (SpecSwarm)
\* C23: when a delegate_task call has finished, by return or by an exception
\* leaving it, the registry does not hold the identifier the call made for
\* its sub-agent, and between calls of a single caller the registry is
\* empty.
C23_RegistryCleared ==
    /\ active_agents = {}
    /\ last.op = "delegate_task" => last.agent_id \notin active_agents

\* a call that ended with an exception leaving it
C23_Witness ==
    /\ last.op = "delegate_task"
    /\ last.exc # NoException
    /\ last.pre_agents = {}
    /\ last.agent_id \notin active_agents

\* C24 as stated: a loop pass of solve whose calls are all delegate_task
\* calls with a complete argument object records one tool observation per
\* call, no exception leaves the loop and the state machine is not in ERROR.
C24_AsClaimed ==
    (/\ last.op = "cycle_tool"
     /\ \A k \in DOMAIN last.calls :
           /\ last.calls[k].name = "delegate_task"
           /\ last.calls[k].arguments = ArgsComplete) =>
        /\ last.exc = NoException
        /\ current_state # STATE_ERROR
        /\ \A k \in DOMAIN last.calls :
               \E i \in DOMAIN Appended :
                   /\ Appended[i].role = "tool"
                   /\ Appended[i].tool_call_id = last.calls[k].id

\* the names a delegate_task call allows its sub-agent
AllowedOf(allowed_tools) ==
    IF allowed_tools = NoAllowedTools
    THEN Range(DefaultAllowedTools) ELSE Range(allowed_tools)

\* C26 as stated: a delegate_task call makes a sub-agent whose registered
\* schemas are the parent's schemas with an allowed name (the default
\* subset when allowed_tools is omitted), in the parent's order.
C26_AsClaimed ==
    last.op = "delegate_task" =>
        /\ last.sub_agent.created
        /\ last.sub_agent.tools =
               SelectSeq(core_tools,
                         LAMBDA tool : tool \in AllowedOf(last.allowed_tools))

\* C28: a step that is a delegate_task call leaves the parent's execution
\* state, iteration counter, task stack and ledger as they were.
C28_ParentUntouched ==
    [][last'.op = "delegate_task" =>
          /\ current_state' = current_state
          /\ current_iteration' = current_iteration
          /\ task_queue' = task_queue
          /\ conversation_history' = conversation_history]_vars

\* a call made while the parent executes a task in its third iteration
C28_Witness ==
    /\ last.op = "delegate_task"
    /\ current_state = STATE_EXECUTING
    /\ current_iteration = 3
    /\ task_queue # <<>>
    /\ Len(conversation_history) >= 1

\* ---- the context window (SpecContext)
\* C29: after any sequence of add_message calls on a ContextWindow the
\* history starts with the first message ever added and continues with a
\* contiguous suffix, in order, of the messages added after it: pruning
\* takes only the oldest entries behind index 0.
C29_PruningKeepsFirst ==
    context_log # <<>> =>
        /\ context_history # <<>>
        /\ context_history[1] = context_log[1]
        /\ \E k \in 1..Len(context_log) :
               context_history =
                   << context_log[1] >> \o SubSeq(context_log, k + 1, Len(context_log))

\* the last call pruned: entries were popped and the first one is still there
C29_Witness ==
    /\ last.op = "context_add_message"
    /\ Len(context_log) >= 4
    /\ Len(context_history) < Len(last.pre_history)
    /\ context_history[1] = context_log[1]
    /\ context_history[Len(context_history)] = context_log[Len(context_log)]

\* ---- the long-term memory (SpecMemory)
\* C30 as stated: once self_reflect has stored a reflection for a task, a
\* recall_knowledge call with that task as its query returns status success
\* with at least one memory, whether the store is enabled or in mock mode.
C30_AsClaimed ==
    (/\ last.op = "recall_knowledge"
     /\ Count(reflections, last.query) >= 1) =>
        /\ last.status = "success"
        /\ Len(last.relevant_memories) >= 1

\* ---- identifiers of tool calls (SpecIds)
\* the identifiers of the tool calls recorded in a ledger
RecordedIds(history) ==
    UNION {{history[i].tool_calls[k].id : k \in DOMAIN history[i].tool_calls} :
              i \in DOMAIN history}

\* C31 as stated: a call synthesized from text, by the interpreter or by
\* the gateway, has an id that no tool call already in the ledger has.
C31_AsClaimed ==
    (last.op = "ids_run_cycle" /\ last.origin \in {"interpreter", "gateway"}) =>
        \A k \in DOMAIN last.tool_calls :
            last.tool_calls[k].id \notin RecordedIds(last.pre_history)

\* ---- solve and its ledger (Spec)
\* the assistant message at position i is followed by one tool message per
\* call it carries, in the order of the calls, each with the id and the
\* name of its call, and by no further tool message
Answered(history, i) ==
    LET calls == history[i].tool_calls
    IN /\ Len(history) >= i + Len(calls)
       /\ \A k \in DOMAIN calls :
              /\ history[i + k].role = "tool"
              /\ history[i + k].tool_call_id = calls[k].id
              /\ history[i + k].name = calls[k].name
       /\ Len(history) > i + Len(calls) =>
              history[i + Len(calls) + 1].role # "tool"

\* C32 as stated: whenever solve is about to issue a cycle, every assistant
\* message of the ledger that carries tool calls is directly followed by
\* exactly one tool message per call, in call order, with the call's
\* tool_call_id and name.
C32_AsClaimed ==
    (pc = "loop" /\ task_queue # <<>>) =>
        \A i \in DOMAIN conversation_history :
            (/\ conversation_history[i].role = "assistant"
             /\ conversation_history[i].tool_calls # <<>>) =>
                Answered(conversation_history, i)

\* C33: the state is ERROR only right after a pass whose cycle reported a
\* failure of the gateway or a pass that breached the iteration ceiling; a
\* pass whose cycle returned unknown and a pass that dispatched tool calls
\* (malformed arguments and unknown tool names included) do not leave the
\* state at ERROR.
C33_ErrorOnlyOnFailureOrCeiling ==
    /\ current_state = STATE_ERROR => last.op \in {"cycle_failed", "ceiling"}
    /\ last.op \in {"cycle_unknown", "cycle_tool"} => current_state # STATE_ERROR

\* the ceiling is breached in a solve whose ledger holds the observation of
\* a malformed argument text
C33_Witness ==
    /\ last.op = "ceiling"
    /\ current_state = STATE_ERROR
    /\ \E i \in DOMAIN conversation_history :
           /\ conversation_history[i].role = "tool"
           /\ conversation_history[i].content = ParseErrorText

\* the steps that are loop passes of solve
PassOps == {"ceiling", "cycle_failed", "cycle_tool", "cycle_success", "cycle_unknown"}

\* C34 as stated: the first loop pass that solve spends on a task (the
\* first pass of the solve, or the first pass after the top of the stack
\* changed) starts with the iteration counter at 0.
C34_AsClaimed ==
    [][(/\ last'.op \in PassOps
        /\ last.op = "solve_start" \/ last.task # last'.task) =>
           last'.pre_iter = 0]_vars

\* C35: when solve has returned through its last statement the state is
\* IDLE and the counter is 0, also after a loop that ended in ERROR; the
\* state between two solve calls is never ERROR.
C35_ReturnsIdle ==
    /\ last.op = "solve_end" => current_state = STATE_IDLE /\ current_iteration = 0
    /\ pc = "idle" => current_state # STATE_ERROR

\* solve has returned after the ceiling was breached
C35_Witness ==
    /\ last.op = "solve_end"
    /\ last.pre_state = STATE_ERROR
    /\ last.pre_iter = max_iterations_per_task + 1
    /\ current_state = STATE_IDLE

\* ---- the catalog and the swarm (SpecSwarm)
\* C36 as stated: a delegate_task call whose allowed_tools names a tool of
\* the catalog that the main agent does not have registered gives its
\* sub-agent the schema of that tool.
C36_AsClaimed ==
    last.op = "delegate_task" =>
        \A tool \in (Range(last.allowed_tools) \cap TOOL_CATALOG) \ Range(core_tools) :
            tool \in Range(last.sub_agent.tools)

\* ---- the budget of the context window (SpecContext)
\* C37: after an add_message call on a ContextWindow has returned, the
\* contents of the history add up to at most max_chars or the history holds
\* at most two entries; after every call, also one that raised, the message
\* just added is the last entry.
C37_WithinBudgetOrTwo ==
    last.op = "context_add_message" =>
        /\ context_history # <<>>
        /\ context_history[Len(context_history)]
               = [role |-> last.role, content |-> last.content]
        /\ last.exc = NoException =>
               \/ GetTotalLength(context_history).total <= max_chars
               \/ Len(context_history) <= 2

\* a call that pruned down to two entries which are still over the budget
C37_Witness ==
    /\ last.op = "context_add_message"
    /\ last.exc = NoException
    /\ Len(last.pre_history) >= 3
    /\ Len(context_history) = 2
    /\ GetTotalLength(context_history).total > max_chars

\* ---- two callers of solve (SpecThreads)
\* C38 as stated: when two threads run solve on one Brain, each call pops
\* only the task it pushed, and every episode it stores is for the task
\* it was called with (the task its cycles were run for).
C38_AsClaimed ==
    /\ (last.op = "thread_pop" /\ last.popped # "IndexError") =>
           last.popped = last.request
    /\ last.op = "thread_store" => last.task = last.request

\* ---- the autonomy daemon (SpecAutonomy)
\* the loops that are inside a cycle
ExecutingCycle ==
    {i \in DOMAIN autonomy.loops :
        autonomy.loops[i].pc \in {"cycle", "write", "act", "solve"}}

\* C39 as stated: whatever the sequence of start and stop calls, at most one
\* daemon loop is inside a cycle at any time.
C39_AsClaimed == Cardinality(ExecutingCycle) <= 1

====
